---------------------------- MODULE Spec2Model ----------------------------
(***************************************************************************)
(* Model of the database transition validator: the severity lattice       *)
(* (data_class/ValidationStatus.py), the per-table data task               *)
(* (DatabaseTransitionValidator._validate_single_table_data), the          *)
(* concurrent orchestrator (_validate_schemas, _validate_data,             *)
(* validate_transition) and the aggregator's sort/group step               *)
(* (OverallValidationResult).                                              *)
(*                                                                         *)
(* The specifications share the variables:                                 *)
(*   SpecLattice  applies raise_status_level_to to every triple.           *)
(*   SpecTask     runs one data task step by step against every           *)
(*                combination of table existence, row-count and sample     *)
(*                query outcomes.                                          *)
(*   Spec         runs validate_transition over a list of mappings with    *)
(*                a bounded worker pool, tasks completing in any order.    *)
(*   LiveSpec     is Spec with the fairness the thread pool gives.         *)
(*   SpecCalls    calls one function of the validator on one of a set      *)
(*                of inputs.                                               *)
(*                                                                         *)
(* Python's None is the empty sequence <<>>, a value v is <<v>>.           *)
(* Floating-point percentages are modelled as exact rationals compared     *)
(* by cross-multiplication.                                                *)
(***************************************************************************)
EXTENDS Integers, Sequences, FiniteSets, TLC

VARIABLES
    call,       \* one call of a pure function: its arguments and its result
    lat,        \* SpecLattice: the operands and the results of escalate
    task,       \* SpecTask: one data task, its inputs, position and result
    mappings,   \* Spec: the caller's list of table mappings
    settings,   \* Spec: the report sorting settings of the run
    phase,      \* Spec: position of validate_transition
    futures,    \* Spec: state of every submitted future of the current phase
    results,    \* Spec: the results list of the current phase
    overall     \* Spec: the OverallValidationResult under construction

vars == <<call, lat, task, mappings, settings, phase, futures, results, overall>>

None == <<>>
Some(v) == <<v>>
IsNone(x) == x = <<>>
Val(x) == x[1]

Min2(a, b) == IF a <= b THEN a ELSE b
Max2(a, b) == IF a >= b THEN a ELSE b
Abs(n) == IF n < 0 THEN -n ELSE n

\* The variables of a specification that does not use them.
CallIdle == [pc |-> "idle"]
LatIdle == [pc |-> "idle"]
TaskIdle == [pc |-> "idle"]

OrchIdle ==
    /\ call = CallIdle
    /\ mappings = <<>>
    /\ settings = [pc |-> "idle"]
    /\ phase = "idle"
    /\ futures = <<>>
    /\ results = <<>>
    /\ overall = [pc |-> "idle"]

-----------------------------------------------------------------------------
(* Severity lattice: data_class/ValidationStatus.py                        *)

ValidationStatus == {"PASS", "FAIL", "WARNING", "SKIP"}

SEVERITY_ORDER == [s \in ValidationStatus |->
    CASE s = "SKIP" -> 0
      [] s = "PASS" -> 1
      [] s = "WARNING" -> 2
      [] s = "FAIL" -> 3]

\* Mutant: the comparison reversed, the less severe status wins.
raise_status_level_to_reversed(self, new_status) ==
    IF SEVERITY_ORDER[new_status] < SEVERITY_ORDER[self] THEN new_status ELSE self

raise_status_level_to(self, new_status) ==
    IF SEVERITY_ORDER[new_status] > SEVERITY_ORDER[self] THEN new_status ELSE self

-----------------------------------------------------------------------------
(* The data task: DatabaseTransitionValidator._validate_single_table_data  *)

\* Bound of the small sample sizes the sample queries are made to return
\* (beside the whole table or the whole TOP n).
MaxSample == 1

ValidationIssue(issue_type, severity, arg) ==
    [issue_type |-> issue_type, severity |-> severity, arg |-> arg]

\* validation_settings of the run: the defaults of the code, and a second
\* configuration that gives wider bands.
SettingsChoices == {
    [row_count_failure |-> 5, row_count_success |-> 1,
     data_warning |-> 95, data_success |-> 99],
    [row_count_failure |-> 10, row_count_success |-> 5,
     data_warning |-> 90, data_success |-> 100] }

\* What SELECT COUNT(*) can give back through _get_table_count: None when
\* the query fails, else the integer the driver returns.
CountValues == {-1, 0, 950, 1000, 1060}
CountOutcomes == {None} \cup {Some(n) : n \in CountValues}

\* The mapping's per-column validation specs for its key column: no spec,
\* or a rule (nullable=false) and an expected distribution of one category.
NoValidation == [rule |-> FALSE, dist |-> None]
ValidationChoices == {
    NoValidation,
    [rule |-> TRUE,
     dist |-> Some([name |-> "a", min_count |-> Some(1), max_count |-> None,
                    min_percent |-> None, max_percent |-> None])],
    [rule |-> FALSE,
     dist |-> Some([name |-> "a", min_count |-> Some(1), max_count |-> Some(0),
                    min_percent |-> None, max_percent |-> Some(50)])] }

_to_positive_integer(value) ==
    IF IsNone(value) THEN 0 ELSE Max2(0, Val(value))

Known(c) == ~IsNone(c)
KnownLE0(c) == IF IsNone(c) THEN FALSE ELSE Val(c) <= 0
KnownEq0(c) == IF IsNone(c) THEN FALSE ELSE Val(c) = 0
KnownLT0(c) == IF IsNone(c) THEN FALSE ELSE Val(c) < 0

\* Lines 738-766 (side = "source") and 768-793 (side = "target").
ExistenceAndCountIssues(side, exist, count) ==
    IF ~exist
    THEN <<ValidationIssue(side \o "_table_missing", "FAIL", 0)>>
    ELSE IF KnownLT0(count)
    THEN <<ValidationIssue(side \o "_table_count_error", "FAIL", 0)>>
    ELSE IF KnownEq0(count)
    THEN <<ValidationIssue(side \o "_table_is_empty", "WARNING", 0)>>
    ELSE <<>>

\* Lines 795-797.
BothCountsUnknownOrZero(source_count, target_count) ==
    /\ (IsNone(source_count) \/ KnownLE0(source_count))
    /\ (IsNone(target_count) \/ KnownLE0(target_count))

\* Rounds num/den (den > 0) to the nearest integer, ties to even.
RoundDiv(num, den) ==
    LET q == num \div den
        r == num % den
    IN  IF 2 * r < den THEN q
        ELSE IF 2 * r > den THEN q + 1
        ELSE IF q % 2 = 0 THEN q ELSE q + 1

\* abs(percent_diff) <= threshold, with percent_diff of lines 843-848:
\* 100.0 when source_count is 0, else -(source - target) / source * 100.
AbsPercentDiffLE(source_count, target_count, threshold) ==
    IF source_count = 0
    THEN 100 <= threshold
    ELSE Abs(target_count - source_count) * 100 <= threshold * Abs(source_count)

\* percent_diff in tenths of a percent, as "{percent_diff:.1f}" prints it.
PercentDiffTenths(source_count, target_count) ==
    IF source_count = 0 THEN 1000
    ELSE LET num == (target_count - source_count) * 1000
             neg == (num < 0) # (source_count < 0)
             mag == RoundDiv(Abs(num), Abs(source_count))
         IN  IF neg THEN -mag ELSE mag

\* Mutant: the failure band is entered at the threshold itself (>= for >).
RowCountIssueInclusive(source_count, target_count, cfg) ==
    IF AbsPercentDiffLE(source_count, target_count, cfg.row_count_success)
    THEN ValidationIssue("row_count_mismatch<=", "PASS",
                         cfg.row_count_success * 10)
    ELSE IF \/ ~AbsPercentDiffLE(source_count, target_count, cfg.row_count_failure)
            \/ (source_count # 0 /\ Abs(target_count - source_count) * 100
                                    = cfg.row_count_failure * Abs(source_count))
    THEN IF source_count < target_count
         THEN ValidationIssue("target_has_more_data", "WARNING",
                              PercentDiffTenths(source_count, target_count))
         ELSE ValidationIssue("row_count_mismatch>", "FAIL",
                              cfg.row_count_failure * 10)
    ELSE ValidationIssue("row_count_mismatch", "WARNING", 0)

\* Mutant: a target with more rows than the source is not downgraded.
RowCountIssueNoDowngrade(source_count, target_count, cfg) ==
    IF AbsPercentDiffLE(source_count, target_count, cfg.row_count_success)
    THEN ValidationIssue("row_count_mismatch<=", "PASS",
                         cfg.row_count_success * 10)
    ELSE IF ~AbsPercentDiffLE(source_count, target_count, cfg.row_count_failure)
    THEN ValidationIssue("row_count_mismatch>", "FAIL",
                         cfg.row_count_failure * 10)
    ELSE ValidationIssue("row_count_mismatch", "WARNING", 0)

\* Lines 861-876: the severity and the issue type of two differing counts.
\* arg is the number printed in the issue type, in tenths.
RowCountIssue(source_count, target_count, cfg) ==
    IF AbsPercentDiffLE(source_count, target_count, cfg.row_count_success)
    THEN ValidationIssue("row_count_mismatch<=", "PASS",
                         cfg.row_count_success * 10)
    ELSE IF ~AbsPercentDiffLE(source_count, target_count, cfg.row_count_failure)
    THEN IF source_count < target_count
         THEN ValidationIssue("target_has_more_data", "WARNING",
                              PercentDiffTenths(source_count, target_count))
         ELSE ValidationIssue("row_count_mismatch>", "FAIL",
                              cfg.row_count_failure * 10)
    ELSE ValidationIssue("row_count_mismatch", "WARNING", 0)

\* Lines 835-839: the row-count check runs.
RowCountsDiffer(source_count, target_count) ==
    /\ Known(source_count)
    /\ Known(target_count)
    /\ source_count # target_count

-----------------------------------------------------------------------------
(* The sample comparison: _compare_sample_data and the validators it runs *)

Truthy(x) == IF IsNone(x) THEN FALSE ELSE Val(x) # 0

\* Lines 1430-1432: the mapping's sample size replaces the run's.
EffectiveSampleSize(mapping_sample_size, sample_size) ==
    IF ~IsNone(mapping_sample_size) THEN mapping_sample_size ELSE sample_size

\* The most rows "SELECT TOP n ... FROM table" can return: n when a sample
\* size is given (line 1659), and the table's rows when the count is known.
RowLimit(count, sample_size) ==
    LET byTop == IF Truthy(sample_size) /\ Val(sample_size) > 0
                 THEN {Val(sample_size)} ELSE {}
        byCount == IF Known(count) /\ ~KnownLT0(count) THEN {Val(count)} ELSE {}
        limits == byTop \cup byCount
    IN  IF limits = {} THEN MaxSample
        ELSE CHOOSE l \in limits : \A k \in limits : l <= k

SampleRowCounts(limit) == {n \in 0..MaxSample : n <= limit} \cup {limit}

\* Distinct key tuples among n sampled rows.
SampleSetCounts(n) == IF n = 0 THEN {0} ELSE {1, n}

MatchingCounts(ks, kt) ==
    LET top == Min2(ks, kt)
    IN  {0, top} \cup (IF top >= 1 THEN {top - 1} ELSE {})

\* What one sample holds for the validators: how many of its rows are in
\* the expected category "a" and how many fail the column's rule pattern.
ColumnProfiles(n, validation) ==
    { p \in [in_category : {0, Min2(1, n)}, failed : {0, Min2(1, n)}] :
        /\ p.in_category + p.failed <= n
        /\ (IsNone(validation.dist) => p.in_category = 0)
        /\ (~validation.rule => p.failed = 0) }

\* Lines 1311-1406 for one category of one column: the issues of a category
\* observed count times among total_records rows. The bounds are looked up
\* under the lower-cased category name in the expected distribution as
\* configured (line 1316), so a name written with capitals finds none.
Lower(name) == IF name = "A" THEN "a" ELSE name

DistributionIssues(dist, count, total_records) ==
    LET found == Lower(dist.name) = dist.name
        min_count == IF found THEN dist.min_count ELSE None
        max_count == IF found THEN dist.max_count ELSE None
        min_percent == IF found THEN dist.min_percent ELSE None
        max_percent == IF found THEN dist.max_percent ELSE None
        i1 == IF Known(min_count) /\ Known(max_count)
              THEN IF Val(min_count) > Val(max_count)
                   THEN <<ValidationIssue("min_count_>_max_count", "WARNING",
                                          Val(min_count))>>
                   ELSE <<>>
              ELSE <<>>
        i2 == IF Known(min_count)
              THEN IF count < Val(min_count)
                   THEN <<ValidationIssue("distribution_below_min_count_",
                                          "FAIL", Val(min_count))>>
                   ELSE <<>>
              ELSE <<>>
        i3 == IF Known(max_count)
              THEN IF count > Val(max_count)
                   THEN <<ValidationIssue("distribution_above_max_count_",
                                          "FAIL", Val(max_count))>>
                   ELSE <<>>
              ELSE <<>>
        i4 == IF Known(min_percent) /\ Known(max_percent)
              THEN IF Val(min_percent) > Val(max_percent)
                   THEN <<ValidationIssue("min_percent_>_max_percent",
                                          "WARNING", Val(min_percent))>>
                   ELSE <<>>
              ELSE <<>>
        \* percentage = count / total_records * 100, 0.0 when no rows
        i5 == IF Known(min_percent)
              THEN IF (IF total_records > 0
                       THEN count * 100 < Val(min_percent) * total_records
                       ELSE 0 < Val(min_percent))
                   THEN <<ValidationIssue("distribution_below_min_percent_",
                                          "FAIL", Val(min_percent))>>
                   ELSE <<>>
              ELSE <<>>
        i6 == IF Known(max_percent)
              THEN IF (IF total_records > 0
                       THEN count * 100 > Val(max_percent) * total_records
                       ELSE 0 > Val(max_percent))
                   THEN <<ValidationIssue("distribution_above_max_percent_",
                                          "FAIL", Val(max_percent))>>
                   ELSE <<>>
              ELSE <<>>
    IN  i1 \o i2 \o i3 \o i4 \o i5 \o i6

\* The outcomes of the two sample queries of one mapping. error names the
\* query that raised, if any; the counts describe the rows returned.
SampleOutcomes(source_exist, target_exist, source_count, target_count, sample_size, validation) ==
    LET sl == RowLimit(source_count, sample_size)
        tl == RowLimit(target_count, sample_size)
        blank == [in_category |-> 0, failed |-> 0]
        source_fails ==
            {[error |-> "source", ns |-> 0, nt |-> 0, ks |-> 0, kt |-> 0,
              m |-> 0, source_profile |-> blank, target_profile |-> blank]}
        target_fails ==
            {[error |-> "target", ns |-> n, nt |-> 0, ks |-> 0, kt |-> 0,
              m |-> 0, source_profile |-> blank, target_profile |-> blank] :
                n \in SampleRowCounts(sl)}
        both_answer ==
            UNION { UNION { UNION { UNION {
                {[error |-> "none", ns |-> ns, nt |-> nt, ks |-> ks, kt |-> kt,
                  m |-> m, source_profile |-> sp, target_profile |-> tp] :
                    m \in MatchingCounts(ks, kt)} :
                    tp \in ColumnProfiles(nt, validation)} :
                    sp \in ColumnProfiles(ns, validation)} :
                    ks \in SampleSetCounts(ns), kt \in SampleSetCounts(nt)} :
                    ns \in SampleRowCounts(sl), nt \in SampleRowCounts(tl)}
    IN  \* a table missing from the index cannot be queried
        IF ~source_exist THEN source_fails
        ELSE IF ~target_exist THEN source_fails \cup target_fails
        ELSE source_fails \cup target_fails \cup both_answer

\* Lines 1416-1585: the CompareSampleDataResult of one outcome.
_compare_sample_data(mapping_sample_size, sample_size, validation, outcome) ==
    LET effective == EffectiveSampleSize(mapping_sample_size, sample_size)
    IN  IF outcome.error # "none"
        THEN [sample_size |-> effective,
              source_sample_count |-> outcome.ns,
              target_sample_count |-> outcome.nt,
              source_sample_set_count |-> 0,
              target_sample_set_count |-> 0,
              matching_set_record_count |-> 0,
              rule_based_data_validation |-> None,
              distribution_based_data_validation |-> None,
              data_match_validation_issues |->
                  <<ValidationIssue("Error_comparing_sample_data", "FAIL", 0)>>]
        ELSE [sample_size |-> effective,
              source_sample_count |-> outcome.ns,
              target_sample_count |-> outcome.nt,
              source_sample_set_count |-> outcome.ks,
              target_sample_set_count |-> outcome.kt,
              matching_set_record_count |-> outcome.m,
              rule_based_data_validation |->
                  IF validation.rule
                  THEN Some([source |-> outcome.source_profile.failed,
                             target |-> outcome.target_profile.failed])
                  ELSE None,
              distribution_based_data_validation |->
                  IF Known(validation.dist)
                  THEN Some([source |-> DistributionIssues(Val(validation.dist),
                                 outcome.source_profile.in_category, outcome.ns),
                             target |-> DistributionIssues(Val(validation.dist),
                                 outcome.target_profile.in_category, outcome.nt)])
                  ELSE None,
              data_match_validation_issues |-> <<>>]

\* CompareSampleDataResult.success_rate_of_2_sets and
\* interpolated_success_rate_of_tables_from_success_rate_of_2_sets as the
\* fraction RateNum / RateDen of 100 percent (RateDen = 0: the rate is 0.0).
RateNum(c) ==
    c.matching_set_record_count
        * Min2(c.source_sample_count, c.target_sample_count)
RateDen(c) ==
    Max2(c.source_sample_set_count, c.target_sample_set_count)
        * Max2(c.source_sample_count, c.target_sample_count)

\* abs(success_rate) < threshold percent
SuccessRateBelow(c, threshold) ==
    IF RateDen(c) = 0 THEN 0 < threshold
    ELSE RateNum(c) * 100 < threshold * RateDen(c)

\* success_rate in hundredths of a percent, as "{success_rate:.2f}" prints it
SuccessRateHundredths(c) ==
    IF RateDen(c) = 0 THEN 0
    ELSE LET d == RateDen(c)
             q == RateNum(c) \div d
             x == (RateNum(c) % d) * 100
             q2 == x \div d
             y == (x % d) * 100
         IN  q * 10000 + q2 * 100 + RoundDiv(y, d)

\* CompareSampleDataResult.interpolated_matching_records_of_tables_from_success_rate
interpolated_matching_records(c) ==
    LET both == Min2(c.source_sample_count, c.target_sample_count)
        min_sample_count ==
            IF Truthy(c.sample_size) /\ Val(c.sample_size) > 0
            THEN Min2(both, Val(c.sample_size)) ELSE both
        d == Max2(c.source_sample_set_count, c.target_sample_set_count)
    IN  IF d = 0 THEN 0
        ELSE (c.matching_set_record_count * min_sample_count) \div d

-----------------------------------------------------------------------------
(* The steps of _validate_single_table_data on a task record               *)

InSeq(x, seq) == \E i \in 1..Len(seq) : seq[i] = x

\* Lines 735-832: the issue lists, then either the early FAIL result of a
\* table pair with no positive row count, or a fresh PASS result. The fresh
\* result is built without the two issue lists and without the existence
\* flags, which keep the dataclass defaults.
CollectIssues(t) ==
    LET issues ==
            ExistenceAndCountIssues("source", t.source_table_exist, t.source_count)
            \o ExistenceAndCountIssues("target", t.target_table_exist, t.target_count)
    IN  IF BothCountsUnknownOrZero(t.source_count, t.target_count)
        THEN [t EXCEPT !.pc = "done",
                !.result = Some([
                    status |-> "FAIL",
                    source_table_exist |-> t.source_table_exist,
                    target_table_exist |-> t.target_table_exist,
                    source_count |-> _to_positive_integer(t.source_count),
                    target_count |-> _to_positive_integer(t.target_count),
                    sample_size |-> t.sample_size,
                    matching_records |-> 0,
                    row_count_validation_issues |-> issues,
                    data_match_validation_issues |-> issues,
                    compare_sample_data_result |-> None])]
        ELSE [t EXCEPT !.pc = "row_count",
                !.result = Some([
                    status |-> "PASS",
                    source_table_exist |-> TRUE,
                    target_table_exist |-> TRUE,
                    source_count |-> _to_positive_integer(t.source_count),
                    target_count |-> _to_positive_integer(t.target_count),
                    sample_size |-> t.sample_size,
                    matching_records |-> 0,
                    row_count_validation_issues |-> <<>>,
                    data_match_validation_issues |-> <<>>,
                    compare_sample_data_result |-> None])]

\* Lines 834-888: the row-count check of two known, different counts
\* assigns the status and appends its issue.
RowCountValidation(t) ==
    IF RowCountsDiffer(t.source_count, t.target_count)
    THEN LET issue == RowCountIssue(Val(t.source_count), Val(t.target_count),
                                    t.cfg)
             r == Val(t.result)
         IN  [t EXCEPT !.pc = "data",
                !.result = Some([r EXCEPT
                    !.status = issue.severity,
                    !.row_count_validation_issues = Append(@, issue)])]
    ELSE [t EXCEPT !.pc = "data"]

\* Mutant: the issues of the sample comparison are not taken over.
FoldIssuesDropped(r, issues) == r

\* Lines 912-924: the issues of the sample comparison not yet in the result
\* are appended and escalate the status.
RECURSIVE FoldIssues(_, _)
FoldIssues(r, issues) ==
    IF issues = <<>> THEN r
    ELSE LET issue == Head(issues)
         IN  IF InSeq(issue, r.data_match_validation_issues)
             THEN FoldIssues(r, Tail(issues))
             ELSE FoldIssues(
                    [r EXCEPT
                        !.data_match_validation_issues = Append(@, issue),
                        !.status = raise_status_level_to(@, issue.severity)],
                    Tail(issues))

\* Lines 890-924, outcome being what the sample queries do when they run.
DataValidation(t, outcome) ==
    LET r == Val(t.result)
    IN  IF KnownEq0(t.source_count) /\ KnownEq0(t.target_count)
        THEN [t EXCEPT !.pc = "done",
                !.result = Some([r EXCEPT
                    !.status = raise_status_level_to(@, "PASS")])]
        ELSE IF Len(t.key_columns) = 0
        THEN [t EXCEPT !.pc = "done",
                !.result = Some([r EXCEPT
                    !.data_match_validation_issues =
                        Append(@, ValidationIssue("no_key_columns", "WARNING", 0))])]
        ELSE LET c == _compare_sample_data(t.mapping_sample_size, t.sample_size,
                                           t.validation, outcome)
                 folded == FoldIssues(r, c.data_match_validation_issues)
             IN  [t EXCEPT !.pc = "rate",
                    !.sample_outcome = Some(outcome),
                    !.result = Some([folded EXCEPT
                        !.compare_sample_data_result = Some(c)])]

\* Mutant: a rate between the two thresholds counts as a success.
SuccessRateStatusNoWarning(c, cfg) ==
    IF SuccessRateBelow(c, cfg.data_warning) THEN "FAIL" ELSE "PASS"

\* Lines 936-944.
SuccessRateStatus(c, cfg) ==
    IF SuccessRateBelow(c, cfg.data_warning) THEN "FAIL"
    ELSE IF SuccessRateBelow(c, cfg.data_success) THEN "WARNING"
    ELSE "PASS"

\* Mutant: the success-rate status is assigned to the result as it is.
SuccessRateValidationOverwrites(t) ==
    LET r == Val(t.result)
        c == Val(r.compare_sample_data_result)
        success_rate_status == SuccessRateStatus(c, t.cfg)
        issues == IF SuccessRateBelow(c, 100)
                  THEN Append(r.data_match_validation_issues,
                              ValidationIssue("% matched data", success_rate_status,
                                              SuccessRateHundredths(c)))
                  ELSE r.data_match_validation_issues
    IN  [t EXCEPT !.pc = "done",
            !.result = Some([r EXCEPT
                !.matching_records = interpolated_matching_records(c),
                !.data_match_validation_issues = issues,
                !.status = success_rate_status])]

\* Lines 926-959.
SuccessRateValidation(t) ==
    LET r == Val(t.result)
        c == Val(r.compare_sample_data_result)
        success_rate_status == SuccessRateStatus(c, t.cfg)
        issues == IF SuccessRateBelow(c, 100)
                  THEN Append(r.data_match_validation_issues,
                              ValidationIssue("% matched data", success_rate_status,
                                              SuccessRateHundredths(c)))
                  ELSE r.data_match_validation_issues
    IN  [t EXCEPT !.pc = "done",
            !.result = Some([r EXCEPT
                !.matching_records = interpolated_matching_records(c),
                !.data_match_validation_issues = issues,
                !.status = raise_status_level_to(@, success_rate_status)])]

\* Whether the sample queries run in the data step of t.
RunsSampleComparison(t) ==
    /\ ~(KnownEq0(t.source_count) /\ KnownEq0(t.target_count))
    /\ Len(t.key_columns) > 0

NoOutcome ==
    [error |-> "none", ns |-> 0, nt |-> 0, ks |-> 0, kt |-> 0, m |-> 0,
     source_profile |-> [in_category |-> 0, failed |-> 0],
     target_profile |-> [in_category |-> 0, failed |-> 0]]

-----------------------------------------------------------------------------
(* SpecTask: one data task against every environment                       *)

SampleSizeChoices == {
    [sample_size |-> None, mapping_sample_size |-> None],
    [sample_size |-> Some(1), mapping_sample_size |-> None],
    [sample_size |-> Some(1), mapping_sample_size |-> Some(2)] }

TaskInputs ==
    { t \in [pc : {"start"},
             source_table_exist : BOOLEAN,
             target_table_exist : BOOLEAN,
             enable_row_count_validation : BOOLEAN,
             key_columns : {<<>>, <<"ID">>},
             cfg : SettingsChoices,
             sample_size : {None, Some(1)},
             mapping_sample_size : {None, Some(2)},
             validation : ValidationChoices,
             source_count : {None},
             target_count : {None},
             count_queries : {{}},
             sample_outcome : {None},
             result : {None}] :
        /\ [sample_size |-> t.sample_size,
            mapping_sample_size |-> t.mapping_sample_size] \in SampleSizeChoices
        /\ (t.key_columns = <<>> => t.validation = NoValidation) }

TaskInit ==
    /\ task \in TaskInputs
    /\ lat = LatIdle
    /\ OrchIdle

\* Lines 704-719: the source row count, fetched only when row-count
\* validation is enabled and the source table is in the index.
GetSourceCount ==
    /\ task.pc = "start"
    /\ IF task.enable_row_count_validation /\ task.source_table_exist
       THEN \E c \in CountOutcomes :
                task' = [task EXCEPT !.pc = "target_count",
                            !.source_count = c,
                            !.count_queries = @ \cup {"source"}]
       ELSE task' = [task EXCEPT !.pc = "target_count"]
    /\ UNCHANGED <<call, lat, mappings, settings, phase, futures, results, overall>>

\* Lines 721-733.
GetTargetCount ==
    /\ task.pc = "target_count"
    /\ IF task.enable_row_count_validation /\ task.target_table_exist
       THEN \E c \in CountOutcomes :
                task' = [task EXCEPT !.pc = "issues",
                            !.target_count = c,
                            !.count_queries = @ \cup {"target"}]
       ELSE task' = [task EXCEPT !.pc = "issues"]
    /\ UNCHANGED <<call, lat, mappings, settings, phase, futures, results, overall>>

TaskCollectIssues ==
    /\ task.pc = "issues"
    /\ task' = CollectIssues(task)
    /\ UNCHANGED <<call, lat, mappings, settings, phase, futures, results, overall>>

TaskRowCountValidation ==
    /\ task.pc = "row_count"
    /\ task' = RowCountValidation(task)
    /\ UNCHANGED <<call, lat, mappings, settings, phase, futures, results, overall>>

TaskDataValidation ==
    /\ task.pc = "data"
    /\ IF RunsSampleComparison(task)
       THEN \E outcome \in SampleOutcomes(
                    task.source_table_exist, task.target_table_exist,
                    task.source_count, task.target_count,
                    EffectiveSampleSize(task.mapping_sample_size, task.sample_size),
                    task.validation) :
                task' = DataValidation(task, outcome)
       ELSE task' = DataValidation(task, NoOutcome)
    /\ UNCHANGED <<call, lat, mappings, settings, phase, futures, results, overall>>

TaskSuccessRateValidation ==
    /\ task.pc = "rate"
    /\ task' = SuccessRateValidation(task)
    /\ UNCHANGED <<call, lat, mappings, settings, phase, futures, results, overall>>

TaskNext ==
    \/ GetSourceCount
    \/ GetTargetCount
    \/ TaskCollectIssues
    \/ TaskRowCountValidation
    \/ TaskDataValidation
    \/ TaskSuccessRateValidation

SpecTask == TaskInit /\ [][TaskNext]_vars

-----------------------------------------------------------------------------
(* Claims about the data task (SpecTask)                                   *)

TaskDone == task.pc = "done"
TaskResult == Val(task.result)
AtLeast(status, severity) == SEVERITY_ORDER[status] >= SEVERITY_ORDER[severity]
SeqToSet(seq) == {seq[i] : i \in 1..Len(seq)}
ResultIssues(r) ==
    SeqToSet(r.row_count_validation_issues)
        \cup SeqToSet(r.data_match_validation_issues)

\* C6: the final status of a Table Data Result is at least as severe as
\* every issue in its row-count and data-match issue lists; a result that
\* carries the WARNING no_key_columns issue is never PASS.
C6_StatusCoversIssues ==
    TaskDone =>
        \A issue \in ResultIssues(TaskResult) :
            AtLeast(TaskResult.status, issue.severity)

\* A task on two existing tables of 1000 rows each and a mapping without
\* key columns ends PASS while carrying the WARNING no_key_columns issue.
C6_FailingState ==
    /\ TaskDone
    /\ task.source_table_exist /\ task.target_table_exist
    /\ task.source_count = Some(1000) /\ task.target_count = Some(1000)
    /\ task.key_columns = <<>>
    /\ TaskResult.status = "PASS"
    /\ TaskResult.data_match_validation_issues
            = <<ValidationIssue("no_key_columns", "WARNING", 0)>>

\* The issues the distribution validator attached to the two samples, and
\* the failed records the rule validator counted.
DistributionIssuesOf(r) ==
    IF IsNone(r.compare_sample_data_result) THEN {}
    ELSE LET d == Val(r.compare_sample_data_result).distribution_based_data_validation
         IN  IF IsNone(d) THEN {}
             ELSE SeqToSet(Val(d).source) \cup SeqToSet(Val(d).target)
RuleFailedRecordsOf(r) ==
    IF IsNone(r.compare_sample_data_result) THEN 0
    ELSE LET f == Val(r.compare_sample_data_result).rule_based_data_validation
         IN  IF IsNone(f) THEN 0 ELSE Val(f).source + Val(f).target

\* C7: a FAIL issue of the distribution validator, or a failed record of
\* the rule validator, makes the table's final status FAIL, and a WARNING
\* distribution issue makes it at least WARNING.
C7_ValidatorIssuesFolded ==
    TaskDone =>
        /\ (\E issue \in DistributionIssuesOf(TaskResult) :
                issue.severity = "FAIL") => TaskResult.status = "FAIL"
        /\ RuleFailedRecordsOf(TaskResult) > 0 => TaskResult.status = "FAIL"
        /\ (\E issue \in DistributionIssuesOf(TaskResult) :
                issue.severity = "WARNING") => AtLeast(TaskResult.status, "WARNING")

\* Two tables of 1000 rows sampled with TOP 1, the two one-row samples
\* matching, the source row failing the column's rule and not being of
\* category "a" (min_count 1): the distribution validator reports
\* distribution_below_min_count_1, the rule validator counts one failed
\* record, and the table ends PASS with no issue.
C7_FailingState ==
    /\ TaskDone
    /\ task.source_count = Some(1000) /\ task.target_count = Some(1000)
    /\ task.sample_size = Some(1) /\ task.mapping_sample_size = None
    /\ task.sample_outcome = Some(
            [error |-> "none", ns |-> 1, nt |-> 1, ks |-> 1, kt |-> 1, m |-> 1,
             source_profile |-> [in_category |-> 0, failed |-> 1],
             target_profile |-> [in_category |-> 1, failed |-> 0]])
    /\ ValidationIssue("distribution_below_min_count_", "FAIL", 1)
            \in DistributionIssuesOf(TaskResult)
    /\ RuleFailedRecordsOf(TaskResult) = 1
    /\ TaskResult.status = "PASS"
    /\ TaskResult.data_match_validation_issues = <<>>

\* C8: when the source table is absent from the index and the target
\* exists, the result is FAIL, carries a source_table_missing issue, and no
\* row-count query was issued for the source.
C8_SourceMissingFails ==
    (TaskDone /\ ~task.source_table_exist /\ task.target_table_exist) =>
        /\ TaskResult.status = "FAIL"
        /\ \E issue \in ResultIssues(TaskResult) :
                issue.issue_type = "source_table_missing"
        /\ "source" \notin task.count_queries

\* Source missing, target holding 1000 rows, no key columns: the task ends
\* PASS and the source_table_missing issue is not in the result.
C8_FailingState ==
    /\ TaskDone
    /\ ~task.source_table_exist /\ task.target_table_exist
    /\ task.target_count = Some(1000)
    /\ task.key_columns = <<>>
    /\ TaskResult.status = "PASS"
    /\ TaskResult.row_count_validation_issues = <<>>
    /\ TaskResult.data_match_validation_issues
            = <<ValidationIssue("no_key_columns", "WARNING", 0)>>

\* The row-count check has run in this state.
RowCountChecked ==
    \/ task.pc \in {"data", "rate"}
    \/ TaskDone /\ ~BothCountsUnknownOrZero(task.source_count, task.target_count)

\* The severity the specification gives two different counts, from
\* |%diff| = |target - source| / |source| * 100.
RowCountSeverityRule(source_count, target_count, cfg) ==
    LET diff100 == Abs(target_count - source_count) * 100
        base == Abs(source_count)
    IN  IF diff100 <= cfg.row_count_success * base THEN "PASS"
        ELSE IF diff100 > cfg.row_count_failure * base
             THEN IF target_count < source_count THEN "FAIL" ELSE "WARNING"
             ELSE "WARNING"

\* C9: for two known, different counts the row-count check produces one
\* issue whose severity is PASS within the success band, FAIL (target below
\* source) or WARNING (target above source) beyond the failure threshold,
\* and WARNING otherwise; it produces nothing else.
C9_RowCountSeverity ==
    RowCountChecked =>
        LET issues == TaskResult.row_count_validation_issues
        IN  IF RowCountsDiffer(task.source_count, task.target_count)
            THEN /\ Len(issues) = 1
                 /\ issues[1].severity =
                        RowCountSeverityRule(Val(task.source_count),
                                             Val(task.target_count), task.cfg)
                 /\ issues[1].severity \in {"PASS", "WARNING", "FAIL"}
                 /\ (task.pc = "data" => TaskResult.status = issues[1].severity)
            ELSE issues = <<>>

C9_Witness ==
    /\ task.pc = "data"
    /\ task.source_count = Some(1060) /\ task.target_count = Some(950)
    /\ task.cfg.row_count_failure = 5
    /\ TaskResult.row_count_validation_issues
            = <<ValidationIssue("row_count_mismatch>", "FAIL", 50)>>
    /\ TaskResult.status = "FAIL"

\* The scenario of C10: 1000 source rows, 950 target rows, thresholds 5 and 1.
C10_Scenario ==
    /\ RowCountChecked
    /\ task.source_count = Some(1000) /\ task.target_count = Some(950)
    /\ task.cfg.row_count_failure = 5 /\ task.cfg.row_count_success = 1

\* C10 as stated: a difference exactly equal to the failure threshold with
\* target below source gives a FAIL issue of kind row_count_mismatch>5.0%.
C10_BoundaryIsFail ==
    C10_Scenario =>
        TaskResult.row_count_validation_issues
            = <<ValidationIssue("row_count_mismatch>", "FAIL", 50)>>

\* C10 amended: the difference is -5.0%, which is not above the failure
\* threshold, so the check takes the WARNING branch with the issue kind
\* row_count_mismatch.
C10_BoundaryIsWarning ==
    C10_Scenario =>
        /\ PercentDiffTenths(1000, 950) = -50
        /\ TaskResult.row_count_validation_issues
                = <<ValidationIssue("row_count_mismatch", "WARNING", 0)>>

C10_Witness ==
    /\ C10_Scenario
    /\ task.pc = "data"
    /\ TaskResult.status = "WARNING"

\* A count is unknown when its query failed (None) or came back negative.
UnknownCount(c) == IsNone(c) \/ KnownLT0(c)
ComparisonIssueTypes ==
    {"row_count_mismatch", "row_count_mismatch<=", "row_count_mismatch>",
     "target_has_more_data"}

\* C11: a row count whose query failed or that came back negative is not
\* used as a number: no row_count_mismatch / target_has_more issue is
\* derived from it, and the other side's known count is still reported in
\* the result.
C11_UnknownCountNotCompared ==
    (TaskDone /\ (UnknownCount(task.source_count) \/ UnknownCount(task.target_count))) =>
        /\ \A issue \in SeqToSet(TaskResult.row_count_validation_issues) :
                issue.issue_type \notin ComparisonIssueTypes
        /\ ~UnknownCount(task.source_count) =>
                TaskResult.source_count = Val(task.source_count)
        /\ ~UnknownCount(task.target_count) =>
                TaskResult.target_count = Val(task.target_count)

\* The source count comes back as -1 and the target holds 1000 rows: the
\* difference is computed from -1 (-100100.0%) and, the source being below
\* the target, reported as a WARNING target_has_more issue.
C11_FailingState ==
    /\ TaskDone
    /\ task.source_count = Some(-1) /\ task.target_count = Some(1000)
    /\ TaskResult.row_count_validation_issues
            = <<ValidationIssue("target_has_more_data", "WARNING",
                                PercentDiffTenths(-1, 1000))>>
    /\ PercentDiffTenths(-1, 1000) = -1001000

\* The sample comparison of this task ended in its except branch.
SampleQueryFailed ==
    /\ TaskDone
    /\ ~IsNone(task.sample_outcome)
    /\ Val(task.sample_outcome).error # "none"

\* C12: a failing sample query does not abort the data task: the task
\* returns a result of status FAIL that carries a FAIL issue of kind
\* Error_comparing_sample_data, and the row counts and the row-count issue
\* gathered before the sample comparison are still in the result.
C12_SampleFailureIsFail ==
    SampleQueryFailed =>
        /\ TaskResult.status = "FAIL"
        /\ \E issue \in SeqToSet(TaskResult.data_match_validation_issues) :
                /\ issue.issue_type = "Error_comparing_sample_data"
                /\ issue.severity = "FAIL"
        /\ TaskResult.source_count = _to_positive_integer(task.source_count)
        /\ TaskResult.target_count = _to_positive_integer(task.target_count)
        /\ TaskResult.row_count_validation_issues =
                IF RowCountsDiffer(task.source_count, task.target_count)
                THEN <<RowCountIssue(Val(task.source_count),
                                     Val(task.target_count), task.cfg)>>
                ELSE <<>>

\* 1000 source rows, 1060 target rows, the source sample read and the
\* target sample query failing.
C12_Witness ==
    /\ SampleQueryFailed
    /\ Val(task.sample_outcome).error = "target"
    /\ task.source_count = Some(1000) /\ task.target_count = Some(1060)
    /\ task.cfg.row_count_failure = 5
    /\ TaskResult.status = "FAIL"
    /\ TaskResult.source_count = 1000 /\ TaskResult.target_count = 1060
    /\ Len(TaskResult.row_count_validation_issues) = 1
    /\ TaskResult.row_count_validation_issues[1].issue_type = "target_has_more_data"
    /\ TaskResult.data_match_validation_issues[1]
            = ValidationIssue("Error_comparing_sample_data", "FAIL", 0)

\* The sample comparison of a finished task, when its queries succeeded.
SampleCompared ==
    /\ TaskDone
    /\ ~IsNone(TaskResult.compare_sample_data_result)
    /\ ~SampleQueryFailed

\* The comparison result with the row counts of the two tables in the place
\* of the numbers of sampled rows.
WithTableRowCounts(c, r) ==
    [c EXCEPT !.source_sample_count = r.source_count,
              !.target_sample_count = r.target_count]

\* C17: the interpolated metrics come from the row counts of the two tables,
\* not from the numbers of sampled rows: the table success rate is the set
\* success rate * min(source rows, target rows) / max(source rows, target
\* rows), and the estimated matching records are floor(set success rate *
\* min(source rows, target rows, effective sample size) / 100).
C17_InterpolatedFromRowCounts ==
    SampleCompared =>
        LET c == Val(TaskResult.compare_sample_data_result)
            expected == WithTableRowCounts(c, TaskResult)
        IN  /\ TaskResult.matching_records = interpolated_matching_records(expected)
            /\ SuccessRateBelow(expected, 100) =>
                  \E issue \in SeqToSet(TaskResult.data_match_validation_issues) :
                      /\ issue.issue_type = "% matched data"
                      /\ issue.arg = SuccessRateHundredths(expected)
                      /\ issue.severity = SuccessRateStatus(expected, task.cfg)

\* Tables of 950 and 1000 rows, one row sampled from each, the two keys
\* matching: the set success rate is 100 percent and so is the reported
\* table success rate (no "% matched data" issue), where the row counts
\* give 95 percent.
C17_FailingState ==
    /\ SampleCompared
    /\ task.source_count = Some(950) /\ task.target_count = Some(1000)
    /\ task.sample_size = Some(1) /\ task.mapping_sample_size = None
    /\ Val(task.sample_outcome).ns = 1 /\ Val(task.sample_outcome).nt = 1
    /\ Val(task.sample_outcome).ks = 1 /\ Val(task.sample_outcome).kt = 1
    /\ Val(task.sample_outcome).m = 1
    /\ \A issue \in SeqToSet(TaskResult.data_match_validation_issues) :
            issue.issue_type # "% matched data"
    /\ SuccessRateHundredths(
            WithTableRowCounts(Val(TaskResult.compare_sample_data_result),
                               TaskResult)) = 9500

\* C26: escalation is monotonic within a data task: from its initial value
\* on, every update of the status of the Table Data Result gives a status
\* at least as severe as the one before, under SKIP < PASS < WARNING < FAIL;
\* so the severity of the row-count issue, once assigned, is not lowered by
\* the sample comparison and the success-rate step.
C26_StatusNeverLowered ==
    [][/\ (Known(task.result) /\ Known(task'.result)) =>
            AtLeast(Val(task'.result).status, Val(task.result).status)
       /\ Known(task'.result) =>
            \A issue \in SeqToSet(Val(task'.result).row_count_validation_issues) :
                AtLeast(Val(task'.result).status, issue.severity)]_vars

\* The counts 1060 and 1000 gave the row-count issue of severity FAIL, the
\* samples then matched in full (no issue of the data match, success-rate
\* status PASS), and the task has ended with the status FAIL.
C26_Witness ==
    /\ TaskDone
    /\ task.source_count = Some(1060) /\ task.target_count = Some(1000)
    /\ TaskResult.row_count_validation_issues
            = <<ValidationIssue("row_count_mismatch>", "FAIL",
                                task.cfg.row_count_failure * 10)>>
    /\ Known(TaskResult.compare_sample_data_result)
    /\ TaskResult.data_match_validation_issues = <<>>
    /\ SuccessRateStatus(Val(TaskResult.compare_sample_data_result), task.cfg)
            = "PASS"
    /\ TaskResult.status = "FAIL"

\* C27: when the key-set comparison has run, the success-rate step leaves
\* the table's status at least FAIL if the interpolated success rate is
\* below the warning threshold (default 95), at least WARNING if it is below
\* the success threshold (default 99), and as it was otherwise; an issue
\* "<rate>% matched data" of that severity is recorded exactly when the rate
\* is below 100.
C27_SuccessRateThresholds ==
    [][(task.pc = "rate" /\ task'.pc = "done") =>
        LET before == Val(task.result)
            after == Val(task'.result)
            c == Val(after.compare_sample_data_result)
            severity == IF SuccessRateBelow(c, task.cfg.data_warning) THEN "FAIL"
                        ELSE IF SuccessRateBelow(c, task.cfg.data_success)
                        THEN "WARNING" ELSE "PASS"
            rate_issues == {issue \in SeqToSet(after.data_match_validation_issues) :
                                issue.issue_type = "% matched data"}
        IN  /\ AtLeast(after.status, severity)
            /\ severity = "PASS" => after.status = before.status
            /\ SuccessRateBelow(c, 100) <=> rate_issues # {}
            /\ \A issue \in rate_issues : issue.severity = severity]_vars

\* With the thresholds 90 and 100 and the row-count band 5, the counts 1000
\* and 950 pass the row-count check; samples of 1000 and 950 rows whose keys
\* all match give the rate 95.00, not below 90 and below 100, and the task
\* has ended WARNING with the issue of that severity.
C27_Witness ==
    /\ TaskDone
    /\ task.cfg.data_warning = 90 /\ task.cfg.data_success = 100
    /\ \A issue \in SeqToSet(TaskResult.row_count_validation_issues) :
            issue.severity = "PASS"
    /\ Known(TaskResult.compare_sample_data_result)
    /\ Known(task.sample_outcome) /\ Val(task.sample_outcome).error = "none"
    /\ SuccessRateHundredths(Val(TaskResult.compare_sample_data_result)) = 9500
    /\ TaskResult.data_match_validation_issues
            = <<ValidationIssue("% matched data", "WARNING", 9500)>>
    /\ TaskResult.status = "WARNING"

\* C28: every Table Data Result with status FAIL carries at least one issue
\* of severity FAIL in its row-count or its data-match issue list, also
\* when both tables are empty, when both row counts are unknown and when
\* row-count validation is disabled.
C28_FailIsExplained ==
    (TaskDone /\ TaskResult.status = "FAIL") =>
        \E issue \in ResultIssues(TaskResult) : issue.severity = "FAIL"

\* Row-count validation is disabled and both tables exist: no count is
\* fetched, the task returns FAIL at once, and both issue lists are empty.
C28_FailingState ==
    /\ TaskDone
    /\ ~task.enable_row_count_validation
    /\ task.source_table_exist /\ task.target_table_exist
    /\ task.count_queries = {}
    /\ TaskResult.status = "FAIL"
    /\ ResultIssues(TaskResult) = {}

\* C29: the success rate of a table stays within 0..100: the estimated
\* matching record count of a Table Data Result is never more than the total
\* DataMatchValidationResult.success_rate divides it by (the run's sample
\* size when set, else the source row count), whatever the run's sample
\* size, the mapping's sample size and the row counts are.
C29_SuccessRateWithinRange ==
    TaskDone =>
        LET r == TaskResult
            total_count == IF Truthy(r.sample_size) THEN Val(r.sample_size)
                           ELSE r.source_count
        IN  r.source_count # 0 =>
                /\ 0 <= r.matching_records
                /\ r.matching_records <= total_count

\* The run's sample size is 1, the mapping's own is 2: two rows are sampled
\* on both sides and both keys match, so 2 matching records are recorded in
\* a result whose sample size is 1, a success rate of 200.
C29_FailingState ==
    /\ TaskDone
    /\ task.sample_size = Some(1) /\ task.mapping_sample_size = Some(2)
    /\ Known(TaskResult.compare_sample_data_result)
    /\ Val(TaskResult.compare_sample_data_result).matching_set_record_count = 2
    /\ TaskResult.sample_size = Some(1)
    /\ TaskResult.source_count > 0
    /\ TaskResult.matching_records = 2

-----------------------------------------------------------------------------
(* The orchestrator: validate_transition, _validate_schemas and            *)
(* _validate_data, and the aggregator's sort and group step                *)

\* Most mappings in the caller's list, and the largest max_workers.
MaxMappings == 3
MaxWorkers == 2

\* Table and group names in the order Python compares them.
TableNames == <<"A", "B", "C">>
GroupNames == <<"_no_group_", "g1", "g2">>
NameRank(name, names) == CHOOSE i \in 1..Len(names) : names[i] = name

\* What running a task function on a mapping does: it returns a result,
\* raises, or never returns because a query it issued never answers.
Returns(status, first_issues, second_issues) ==
    [kind |-> "return", status |-> status,
     first_issues |-> first_issues, second_issues |-> second_issues]
Raises == [kind |-> "raise", status |-> "SKIP",
           first_issues |-> <<>>, second_issues |-> <<>>]
Blocks == [kind |-> "block", status |-> "SKIP",
           first_issues |-> <<>>, second_issues |-> <<>>]

\* The mappings a list is drawn from, each with the outcome of its schema
\* task (status, validation_issues) and of its data task (status,
\* row_count_validation_issues, data_match_validation_issues).
MappingCatalogue == {
    [source_table |-> "A", target_table |-> "TA", group |-> None,
     key_columns |-> <<"ID">>,
     schema |-> Returns("PASS", <<>>, <<>>),
     data |-> Returns("PASS", <<>>, <<>>)],
    [source_table |-> "A", target_table |-> "TA2", group |-> Some("g2"),
     key_columns |-> <<>>,
     schema |-> Returns("FAIL",
                    <<ValidationIssue("no_target_table", "FAIL", 0)>>, <<>>),
     data |-> Returns("WARNING",
                    <<ValidationIssue("row_count_mismatch", "WARNING", 0)>>,
                    <<ValidationIssue("no_key_columns", "WARNING", 0)>>)],
    [source_table |-> "B", target_table |-> "TB", group |-> None,
     key_columns |-> <<"ID", "K2">>,
     schema |-> Raises,
     data |-> Returns("PASS",
                    <<ValidationIssue("row_count_mismatch<=", "PASS", 10)>>,
                    <<>>)],
    [source_table |-> "B", target_table |-> "TB2", group |-> Some("g1"),
     key_columns |-> <<"ID">>,
     schema |-> Returns("WARNING",
                    <<ValidationIssue("extra_columns_in_target", "WARNING", 0)>>, <<>>),
     data |-> Raises],
    [source_table |-> "C", target_table |-> "TC", group |-> Some("g1"),
     key_columns |-> <<"ID">>,
     schema |-> Returns("PASS", <<>>, <<>>),
     data |-> Blocks],
    [source_table |-> "C", target_table |-> "TC2", group |-> None,
     key_columns |-> <<"ID">>,
     schema |-> Blocks,
     data |-> Returns("FAIL", <<>>,
                    <<ValidationIssue("% matched data", "FAIL", 5000)>>)] }

MappingLists ==
    UNION {[1..n -> MappingCatalogue] : n \in 0..MaxMappings}

Sort(sort_by, sort_order) == [sort_by |-> sort_by, sort_order |-> sort_order]

\* The runs: the arguments of validate_transition and the
\* report_sorting_settings of the validator's settings.
RunChoices == {
    [max_workers |-> MaxWorkers,
     enable_schema_validation |-> TRUE, enable_data_validation |-> TRUE,
     schema_report |-> <<>>, row_count_report |-> <<>>,
     data_match_report |-> <<>>, detailed_data_match_report |-> <<>>],
    [max_workers |-> 1,
     enable_schema_validation |-> TRUE, enable_data_validation |-> TRUE,
     schema_report |-> <<Sort("severity_status", "descending")>>,
     row_count_report |-> <<Sort("severity_status", "ascending")>>,
     data_match_report |-> <<Sort("severity_status", "descending")>>,
     detailed_data_match_report |->
        <<Sort("key_columns_length", "descending"),
          Sort("group_name", "ascending"),
          Sort("table_view_name", "ascending")>>],
    [max_workers |-> MaxWorkers,
     enable_schema_validation |-> TRUE, enable_data_validation |-> TRUE,
     schema_report |-> <<Sort("severity_status", "ascending")>>,
     row_count_report |-> <<>>,
     data_match_report |-> <<Sort("severity_status", "ascending")>>,
     detailed_data_match_report |-> <<Sort("group_name", "descending")>>],
    [max_workers |-> MaxWorkers,
     enable_schema_validation |-> FALSE, enable_data_validation |-> TRUE,
     schema_report |-> <<Sort("severity_status", "descending")>>,
     row_count_report |-> <<>>,
     data_match_report |-> <<>>,
     detailed_data_match_report |->
        <<Sort("key_columns_length", "ascending")>>] }

\* The integers of S in increasing order.
SetToSortedSeq(S) ==
    [p \in 1..Cardinality(S) |->
        CHOOSE x \in S : Cardinality({y \in S : y < x}) = p - 1]

\* Mutant: the last mapping of each source table is kept.
deduplicated_mappings_keep_last(table_mappings) ==
    SetToSortedSeq({i \in 1..Len(table_mappings) :
        \A j \in (i + 1)..Len(table_mappings) :
            table_mappings[j].source_table # table_mappings[i].source_table})

\* _validate_schemas, lines 322-328: the positions of the mappings kept,
\* the first of each source table.
deduplicated_mappings(table_mappings) ==
    SetToSortedSeq({i \in 1..Len(table_mappings) :
        \A j \in 1..(i - 1) :
            table_mappings[j].source_table # table_mappings[i].source_table})

SchemaValidationResult(mapping, status, validation_issues) ==
    [source_table_name |-> mapping.source_table,
     target_table_name |-> mapping.target_table,
     status |-> status,
     validation_issues |-> validation_issues]

DataMatchValidationResult(mapping, status, row_count_validation_issues, data_match_validation_issues) ==
    [source_table |-> mapping.source_table,
     target_table |-> mapping.target_table,
     group |-> mapping.group,
     key_columns |-> mapping.key_columns,
     status |-> status,
     row_count_validation_issues |-> row_count_validation_issues,
     data_match_validation_issues |-> data_match_validation_issues]

\* Mutant: the exception of a data task is recorded as a WARNING.
data_validation_error_as_warning(mapping) ==
    DataMatchValidationResult(mapping, "WARNING", <<>>,
        <<ValidationIssue("data_validation_error", "WARNING", 0)>>)

\* _validate_schemas, lines 351-368.
schema_validation_error(mapping) ==
    SchemaValidationResult(mapping, "FAIL",
        <<ValidationIssue("schema_validation_error", "FAIL", 0)>>)

\* _validate_data, lines 650-671.
data_validation_error(mapping) ==
    DataMatchValidationResult(mapping, "FAIL", <<>>,
        <<ValidationIssue("data_validation_error", "FAIL", 0)>>)

\* What the as_completed loop appends for one finished future: the task's
\* result, or the error result when future.result() raises.
CollectedResult(pool, mapping) ==
    IF pool = "schema"
    THEN IF mapping.schema.kind = "raise"
         THEN schema_validation_error(mapping)
         ELSE SchemaValidationResult(mapping, mapping.schema.status,
                                     mapping.schema.first_issues)
    ELSE IF mapping.data.kind = "raise"
         THEN data_validation_error(mapping)
         ELSE DataMatchValidationResult(mapping, mapping.data.status,
                                        mapping.data.first_issues,
                                        mapping.data.second_issues)

TaskOutcome(pool, mapping) ==
    IF pool = "schema" THEN mapping.schema ELSE mapping.data

\* Mutant: only a task that returns completes its future.
CompletesOnReturn(outcome) == outcome.kind = "return"

\* A future completes when its task returns or raises; there is no timeout,
\* so a task waiting on a query that never answers never completes.
Completes(outcome) == outcome.kind # "block"

-----------------------------------------------------------------------------
(* The aggregator: OverallValidationResult                                 *)
(* .sort_results_and_add_data_match_validation_result_grouped              *)

\* list.sort(key=..., reverse=...) and sorted(...): a stable sort, which
\* leaves items of equal key in their order whatever reverse is. key[i] is
\* the key of seq[i].
StableSortBy(seq, key, reverse) ==
    LET n == Len(seq)
        Before(j, i) == IF reverse THEN key[j] > key[i] ELSE key[j] < key[i]
        Pos(i) == 1 + Cardinality({j \in 1..n :
                        Before(j, i) \/ (key[j] = key[i] /\ j < i)})
    IN  IF n = 0 THEN <<>>
        ELSE [p \in 1..n |-> seq[CHOOSE i \in 1..n : Pos(i) = p]]

\* DataMatchValidationResult.row_count_status
row_count_status(r) ==
    IF \E issue \in SeqToSet(r.row_count_validation_issues) :
            issue.severity = "FAIL"
    THEN "FAIL"
    ELSE IF \E issue \in SeqToSet(r.row_count_validation_issues) :
            issue.severity = "WARNING"
    THEN "WARNING"
    ELSE "PASS"

\* DataMatchValidationResult.get_data_match_status
get_data_match_status(r) ==
    IF \/ r.status = "FAIL"
       \/ \E issue \in SeqToSet(r.data_match_validation_issues) :
            issue.severity = "FAIL"
    THEN "FAIL"
    ELSE IF \/ r.status = "WARNING"
            \/ \E issue \in SeqToSet(r.data_match_validation_issues) :
                issue.severity = "WARNING"
    THEN "WARNING"
    ELSE "PASS"

SeverityKey(report, r) ==
    SEVERITY_ORDER[CASE report = "schema_report" -> r.status
                     [] report = "row_count_report" -> row_count_status(r)
                     [] report = "data_match_report" -> get_data_match_status(r)]

IsDescending(sort) == sort.sort_order = "descending"

\* Lines 285-313: one list sorted in place once for every severity_status
\* entry of the report's sort list.
RECURSIVE SeveritySorts(_, _, _)
SeveritySorts(seq, report, sorts) ==
    IF sorts = <<>> THEN seq
    ELSE IF Head(sorts).sort_by = "severity_status"
    THEN SeveritySorts(
            StableSortBy(seq, [i \in 1..Len(seq) |-> SeverityKey(report, seq[i])],
                         IsDescending(Head(sorts))),
            report, Tail(sorts))
    ELSE SeveritySorts(seq, report, Tail(sorts))

\* Lines 317-323: a group counts when its name is not None (and not empty).
HasGroup(item) == ~IsNone(item.group)

GroupOf(items, name) ==
    SelectSeq(items, LAMBDA item : item.group = Some(name))

\* The dictionary grouped as its entries in insertion order: the groups in
\* the order their first item comes in the list.
GroupedEntries(items) ==
    LET firsts == SetToSortedSeq({i \in 1..Len(items) :
                    /\ HasGroup(items[i])
                    /\ \A j \in 1..(i - 1) : items[j].group # items[i].group})
    IN  [k \in 1..Len(firsts) |->
            [name |-> Val(items[firsts[k]].group),
             items |-> GroupOf(items, Val(items[firsts[k]].group))]]

\* One sort of lines 325-369 applied to the dictionary.
DetailedSort(grouped, sort) ==
    CASE sort.sort_by = "group_name" ->
            StableSortBy(grouped,
                [k \in 1..Len(grouped) |-> NameRank(grouped[k].name, GroupNames)],
                IsDescending(sort))
      [] sort.sort_by = "key_columns_length" ->
            [k \in 1..Len(grouped) |->
                [name |-> grouped[k].name,
                 items |-> StableSortBy(grouped[k].items,
                    [i \in 1..Len(grouped[k].items) |->
                        Len(grouped[k].items[i].key_columns)],
                    IsDescending(sort))]]
      [] sort.sort_by = "table_view_name" ->
            [k \in 1..Len(grouped) |->
                [name |-> grouped[k].name,
                 items |-> StableSortBy(grouped[k].items,
                    [i \in 1..Len(grouped[k].items) |->
                        NameRank(grouped[k].items[i].source_table, TableNames)],
                    IsDescending(sort))]]

\* One of the three loops of lines 325-369: the entries of the sort list
\* that sort by sort_by, applied in list order.
RECURSIVE DetailedSorts(_, _, _)
DetailedSorts(grouped, sort_by, sorts) ==
    IF sorts = <<>> THEN grouped
    ELSE IF Head(sorts).sort_by = sort_by
    THEN DetailedSorts(DetailedSort(grouped, Head(sorts)), sort_by, Tail(sorts))
    ELSE DetailedSorts(grouped, sort_by, Tail(sorts))

\* Lines 372-376.
RECURSIVE Flatten(_)
Flatten(grouped) ==
    IF grouped = <<>> THEN <<>>
    ELSE Head(grouped).items \o Flatten(Tail(grouped))

\* Lines 278-383 on the two result lists of a run.
sort_results_and_add_data_match_validation_result_grouped(self, run) ==
    LET schema == SeveritySorts(self.schema_validation_results,
                                "schema_report", run.schema_report)
        by_row_count == SeveritySorts(self.data_match_validation_result,
                                "row_count_report", run.row_count_report)
        by_data_match == SeveritySorts(by_row_count,
                                "data_match_report", run.data_match_report)
        no_group == SelectSeq(by_data_match, LAMBDA item : ~HasGroup(item))
        grouped ==
            DetailedSorts(
                DetailedSorts(
                    DetailedSorts(GroupedEntries(by_data_match), "group_name",
                                  run.detailed_data_match_report),
                    "key_columns_length", run.detailed_data_match_report),
                "table_view_name", run.detailed_data_match_report)
        \* Line 381: the assignment replaces the list of a group of that
        \* name, which keeps its place, and else adds the entry at the end.
        with_no_group ==
            IF \E k \in 1..Len(grouped) : grouped[k].name = "_no_group_"
            THEN [k \in 1..Len(grouped) |->
                    IF grouped[k].name = "_no_group_"
                    THEN [name |-> "_no_group_", items |-> no_group]
                    ELSE grouped[k]]
            ELSE Append(grouped, [name |-> "_no_group_", items |-> no_group])
    IN  IF by_data_match = <<>>
        THEN [schema_validation_results |-> schema,
              data_match_validation_result |-> by_data_match,
              data_match_validation_result_grouped |-> <<>>]
        ELSE [schema_validation_results |-> schema,
              data_match_validation_result |-> Flatten(grouped) \o no_group,
              data_match_validation_result_grouped |-> with_no_group]

-----------------------------------------------------------------------------
(* Spec: validate_transition over a list of mappings                       *)

Future(mapping, state) == [mapping |-> mapping, state |-> state]

\* executor.submit for each position of table_mappings listed in order.
Submitted(order) == [k \in 1..Len(order) |-> Future(order[k], "queued")]

Running == {k \in 1..Len(futures) : futures[k].state = "running"}
AllCollected == \A k \in 1..Len(futures) : futures[k].state = "collected"
InPool == phase \in {"schema_pool", "data_pool"}
Pool == IF phase = "schema_pool" THEN "schema" ELSE "data"

EmptyOverall ==
    [schema_validation_results |-> <<>>,
     data_match_validation_result |-> <<>>,
     data_match_validation_result_grouped |-> <<>>]

Init ==
    /\ mappings \in MappingLists
    /\ settings \in RunChoices
    /\ phase = "schema"
    /\ futures = <<>>
    /\ results = <<>>
    /\ overall = EmptyOverall
    /\ call = CallIdle
    /\ lat = LatIdle
    /\ task = TaskIdle

\* validate_transition lines 277-288 and _validate_schemas lines 320-341.
SubmitSchemaTasks ==
    /\ phase = "schema"
    /\ IF settings.enable_schema_validation
       THEN /\ phase' = "schema_pool"
            /\ futures' = Submitted(deduplicated_mappings(mappings))
       ELSE /\ phase' = "data"
            /\ futures' = futures
    /\ results' = <<>>
    /\ UNCHANGED <<call, lat, task, mappings, settings, overall>>

\* validate_transition lines 291-295 and _validate_data lines 627-640.
SubmitDataTasks ==
    /\ phase = "data"
    /\ IF settings.enable_data_validation
       THEN /\ phase' = "data_pool"
            /\ futures' = Submitted([i \in 1..Len(mappings) |-> i])
       ELSE /\ phase' = "sort"
            /\ futures' = futures
    /\ results' = <<>>
    /\ UNCHANGED <<call, lat, task, mappings, settings, overall>>

\* ThreadPoolExecutor: an idle worker, of at most max_workers, takes the
\* oldest queued task.
StartTask ==
    /\ InPool
    /\ Cardinality(Running) < settings.max_workers
    /\ \E k \in 1..Len(futures) :
        /\ futures[k].state = "queued"
        /\ \A j \in 1..(k - 1) : futures[j].state # "queued"
        /\ futures' = [futures EXCEPT ![k].state = "running"]
    /\ UNCHANGED <<call, lat, task, mappings, settings, phase, results, overall>>

\* A running task returns or raises, which completes its future.
FinishTask ==
    /\ InPool
    /\ \E k \in Running :
        /\ Completes(TaskOutcome(Pool, mappings[futures[k].mapping]))
        /\ futures' = [futures EXCEPT ![k].state = "finished"]
    /\ UNCHANGED <<call, lat, task, mappings, settings, phase, results, overall>>

\* Mutant: the loop appends the result of a task that is still running.
CollectResultWhileRunning ==
    /\ InPool
    /\ \E k \in 1..Len(futures) :
        /\ futures[k].state = "running"
        /\ futures' = [futures EXCEPT ![k].state = "collected"]
        /\ results' = Append(results,
                             CollectedResult(Pool, mappings[futures[k].mapping]))
    /\ UNCHANGED <<call, lat, task, mappings, settings, phase, overall>>

\* One turn of the as_completed loop (lines 343-368 and 642-671): a
\* completed future is taken and its result, or the error result of its
\* exception, is appended. Which completed future comes first is not fixed:
\* those complete when the loop starts are yielded in set order.
CollectResult ==
    /\ InPool
    /\ \E k \in 1..Len(futures) :
        /\ futures[k].state = "finished"
        /\ futures' = [futures EXCEPT ![k].state = "collected"]
        /\ results' = Append(results,
                             CollectedResult(Pool, mappings[futures[k].mapping]))
    /\ UNCHANGED <<call, lat, task, mappings, settings, phase, overall>>

\* _validate_schemas returns (line 370) once every future is collected.
ReturnSchemaResults ==
    /\ phase = "schema_pool"
    /\ AllCollected
    /\ overall' = [overall EXCEPT !.schema_validation_results = results]
    /\ phase' = "data"
    /\ futures' = <<>>
    /\ results' = <<>>
    /\ UNCHANGED <<call, lat, task, mappings, settings>>

\* _validate_data returns (line 673).
ReturnDataResults ==
    /\ phase = "data_pool"
    /\ AllCollected
    /\ overall' = [overall EXCEPT !.data_match_validation_result = results]
    /\ phase' = "sort"
    /\ futures' = <<>>
    /\ results' = <<>>
    /\ UNCHANGED <<call, lat, task, mappings, settings>>

\* validate_transition lines 300-309: the aggregator sorts and groups, and
\* the Overall Result is returned.
SortAndReturn ==
    /\ phase = "sort"
    /\ overall' = sort_results_and_add_data_match_validation_result_grouped(
                        overall, settings)
    /\ phase' = "returned"
    /\ UNCHANGED <<call, lat, task, mappings, settings, futures, results>>

Next ==
    \/ SubmitSchemaTasks
    \/ SubmitDataTasks
    \/ StartTask
    \/ FinishTask
    \/ CollectResult
    \/ ReturnSchemaResults
    \/ ReturnDataResults
    \/ SortAndReturn

Spec == Init /\ [][Next]_vars

\* The worker threads and the calling thread keep running: a step of the
\* pools or of validate_transition that stays possible is eventually taken.
\* The last conjunct is WF_vars(SortAndReturn) with ENABLED written out:
\* the step is possible exactly when phase = "sort".
LiveSpec ==
    /\ Spec
    /\ WF_vars(SubmitSchemaTasks)
    /\ WF_vars(SubmitDataTasks)
    /\ WF_vars(StartTask)
    /\ WF_vars(FinishTask)
    /\ WF_vars(CollectResult)
    /\ WF_vars(ReturnSchemaResults)
    /\ WF_vars(ReturnDataResults)
    /\ ([]<>(phase # "sort") \/ []<><<SortAndReturn>>_vars)

-----------------------------------------------------------------------------
(* Claims about the orchestrator (Spec, LiveSpec)                          *)

Returned == phase = "returned"
BothPhasesEnabled ==
    settings.enable_schema_validation /\ settings.enable_data_validation
CountIn(seq, x) == Cardinality({k \in 1..Len(seq) : seq[k] = x})
IsFirstOfTable(i) ==
    \A j \in 1..(i - 1) : mappings[j].source_table # mappings[i].source_table

\* _validate_schemas has returned its list, not yet sorted.
SchemaPhaseOver ==
    settings.enable_schema_validation /\ phase \in {"data", "data_pool", "sort"}
\* _validate_data has returned its list, not yet sorted.
DataPhaseOver == settings.enable_data_validation /\ phase = "sort"

\* What a task contributes when it does not fail, and the FAIL result the
\* orchestrator is to record for it when it raises.
ExpectedSchemaResult(mapping) ==
    [source_table_name |-> mapping.source_table,
     target_table_name |-> mapping.target_table,
     status |-> IF mapping.schema.kind = "raise" THEN "FAIL"
                ELSE mapping.schema.status,
     validation_issues |->
        IF mapping.schema.kind = "raise"
        THEN <<[issue_type |-> "schema_validation_error", severity |-> "FAIL",
                arg |-> 0]>>
        ELSE mapping.schema.first_issues]
ExpectedDataResult(mapping) ==
    [source_table |-> mapping.source_table,
     target_table |-> mapping.target_table,
     group |-> mapping.group,
     key_columns |-> mapping.key_columns,
     status |-> IF mapping.data.kind = "raise" THEN "FAIL"
                ELSE mapping.data.status,
     row_count_validation_issues |->
        IF mapping.data.kind = "raise" THEN <<>> ELSE mapping.data.first_issues,
     data_match_validation_issues |->
        IF mapping.data.kind = "raise"
        THEN <<[issue_type |-> "data_validation_error", severity |-> "FAIL",
                arg |-> 0]>>
        ELSE mapping.data.second_issues]

\* C2: when a schema task or a data task raises, the phase's list holds
\* exactly one FAIL result for its mapping with the issue
\* schema_validation_error / data_validation_error, and every other task of
\* the phase contributes, once, the result it produces on its own.
C2_FailureIsolation ==
    /\ SchemaPhaseOver =>
        \A i \in 1..Len(mappings) :
            IsFirstOfTable(i) =>
                CountIn(overall.schema_validation_results,
                        ExpectedSchemaResult(mappings[i])) = 1
    /\ DataPhaseOver =>
        \A i \in 1..Len(mappings) :
            CountIn(overall.data_match_validation_result,
                    ExpectedDataResult(mappings[i]))
                = Cardinality({j \in 1..Len(mappings) :
                                    mappings[j] = mappings[i]})

\* Three mappings of which the first raises in its schema task and the
\* second in its data task; the error results were collected first.
C2_Witness ==
    /\ phase = "sort"
    /\ Len(mappings) = 3
    /\ mappings[1].schema.kind = "raise"
    /\ mappings[2].data.kind = "raise"
    /\ mappings[3].source_table = "A"
    /\ Len(overall.schema_validation_results) = 2
    /\ overall.schema_validation_results[1].validation_issues
            = <<ValidationIssue("schema_validation_error", "FAIL", 0)>>
    /\ overall.schema_validation_results[2].status = "PASS"
    /\ Len(overall.data_match_validation_result) = 3
    /\ overall.data_match_validation_result[1].data_match_validation_issues
            = <<ValidationIssue("data_validation_error", "FAIL", 0)>>
    /\ overall.data_match_validation_result[1].status = "FAIL"
    /\ overall.data_match_validation_result[2].status = "PASS"
    /\ overall.data_match_validation_result[3].status = "PASS"

\* The Overall Result of the run whose tasks complete in submission order.
SubmissionOrderOverall ==
    LET kept == deduplicated_mappings(mappings)
    IN  sort_results_and_add_data_match_validation_result_grouped(
            [schema_validation_results |->
                IF settings.enable_schema_validation
                THEN [k \in 1..Len(kept) |->
                        CollectedResult("schema", mappings[kept[k]])]
                ELSE <<>>,
             data_match_validation_result |->
                IF settings.enable_data_validation
                THEN [i \in 1..Len(mappings) |->
                        CollectedResult("data", mappings[i])]
                ELSE <<>>,
             data_match_validation_result_grouped |-> <<>>],
            settings)

\* C3: for given mappings, task outcomes and sort specs, the schema
\* results, the data results and the grouped map of the returned Overall
\* Result are in the same order whatever order the tasks complete in, which
\* is then the order of the run that completes them in submission order.
C3_CompletionOrderIndependent ==
    Returned => overall = SubmissionOrderOverall

\* Mappings of tables A and B, no group, no sort spec, two workers: the
\* task of B is collected first and the returned lists begin with B.
C3_FailingState ==
    /\ Returned
    /\ Len(mappings) = 2
    /\ mappings[1].source_table = "A" /\ mappings[1].target_table = "TA"
    /\ mappings[2].source_table = "B" /\ mappings[2].target_table = "TB"
    /\ settings.max_workers = 2
    /\ settings.schema_report = <<>>
    /\ settings.detailed_data_match_report = <<>>
    /\ Len(overall.schema_validation_results) = 2
    /\ overall.schema_validation_results[1].source_table_name = "B"
    /\ Len(overall.data_match_validation_result) = 2
    /\ overall.data_match_validation_result[1].source_table = "B"
    /\ overall.data_match_validation_result[2].source_table = "A"

\* What identifies the mapping a data result was built for.
MappingOf(x) == <<x.source_table, x.target_table, x.group, x.key_columns>>
AllGroupedItems == Flatten(overall.data_match_validation_result_grouped)

NoTaskBlocks ==
    /\ settings.enable_schema_validation =>
        \A i \in 1..Len(mappings) :
            IsFirstOfTable(i) => mappings[i].schema.kind # "block"
    /\ settings.enable_data_validation =>
        \A i \in 1..Len(mappings) : mappings[i].data.kind # "block"

Collected == {k \in 1..Len(futures) : futures[k].state = "collected"}

\* In a pool at most max_workers tasks run, and the results list holds one
\* result for each collected future and nothing else.
PoolState ==
    InPool =>
        /\ Cardinality(Running) <= settings.max_workers
        /\ Len(results) = Cardinality(Collected)
        /\ \A x \in SeqToSet(results) :
              CountIn(results, x)
                  = Cardinality({k \in Collected :
                        CollectedResult(Pool, mappings[futures[k].mapping]) = x})

\* C25: no partial publication: a result enters the results list of a pool
\* only when the task that builds it has finished, each task's result is
\* appended exactly once, and the results already in the list are not
\* changed, whatever the interleaving of the at most max_workers tasks that
\* run at a time.
C25_NoPartialPublication ==
    [][/\ PoolState
       /\ PoolState'
       /\ (phase' = phase /\ results' # results) =>
            \E k \in 1..Len(futures) :
                /\ futures[k].state = "finished"
                /\ futures' = [futures EXCEPT ![k].state = "collected"]
                /\ results' = Append(results,
                        CollectedResult(Pool, mappings[futures[k].mapping]))
       /\ (phase' = phase /\ results' = results) =>
            \A k \in 1..Len(futures) :
                futures'[k].state = "collected" => futures[k].state = "collected"]_vars

\* In the data pool of a run with two workers, one result has been
\* appended while a second task has finished and is not yet collected and a
\* third is still running.
C25_Witness ==
    /\ phase = "data_pool"
    /\ settings.max_workers = 2
    /\ Len(futures) = 3
    /\ Cardinality(Collected) = 1
    /\ Cardinality(Running) = 1
    /\ \E k \in 1..Len(futures) : futures[k].state = "finished"
    /\ Len(results) = 1
    /\ \E k \in Collected :
            results[1] = CollectedResult("data", mappings[futures[k].mapping])

-----------------------------------------------------------------------------
(* Functions of the validator called on their own: SpecCalls               *)
(* Type names, key columns and column values are sequences of characters.  *)

\* The characters of the texts used below: the type names of
\* COLUMN_TYPE_COMPATIBLE_MAPPINGS and some other texts.
T ==
    ("INT" :> <<"I", "N", "T">>) @@
    ("INTEGER" :> <<"I", "N", "T", "E", "G", "E", "R">>) @@
    ("BIGINT" :> <<"B", "I", "G", "I", "N", "T">>) @@
    ("DECIMAL" :> <<"D", "E", "C", "I", "M", "A", "L">>) @@
    ("VARCHAR" :> <<"V", "A", "R", "C", "H", "A", "R">>) @@
    ("NVARCHAR" :> <<"N", "V", "A", "R", "C", "H", "A", "R">>) @@
    ("TEXT" :> <<"T", "E", "X", "T">>) @@
    ("NUMERIC" :> <<"N", "U", "M", "E", "R", "I", "C">>) @@
    ("FLOAT" :> <<"F", "L", "O", "A", "T">>) @@
    ("DATE" :> <<"D", "A", "T", "E">>) @@
    ("DATETIME" :> <<"D", "A", "T", "E", "T", "I", "M", "E">>) @@
    ("TIMESTAMP" :> <<"T", "I", "M", "E", "S", "T", "A", "M", "P">>) @@
    ("BINARY" :> <<"B", "I", "N", "A", "R", "Y">>) @@
    ("VARBINARY" :> <<"V", "A", "R", "B", "I", "N", "A", "R", "Y">>) @@
    ("BIT" :> <<"B", "I", "T">>) @@
    ("BOOLEAN" :> <<"B", "O", "O", "L", "E", "A", "N">>) @@
    ("TINYINT" :> <<"T", "I", "N", "Y", "I", "N", "T">>) @@
    ("BOOL" :> <<"B", "O", "O", "L">>) @@
    ("SMALLINT" :> <<"S", "M", "A", "L", "L", "I", "N", "T">>) @@
    ("DOUBLE" :> <<"D", "O", "U", "B", "L", "E">>) @@
    ("REAL" :> <<"R", "E", "A", "L">>) @@
    ("CHAR" :> <<"C", "H", "A", "R">>) @@
    ("NCHAR" :> <<"N", "C", "H", "A", "R">>) @@
    ("XML" :> <<"X", "M", "L">>) @@
    ("int" :> <<"i", "n", "t">>) @@
    ("bigint" :> <<"b", "i", "g", "i", "n", "t">>) @@
    ("varchar" :> <<"v", "a", "r", "c", "h", "a", "r">>) @@
    ("Timestamp" :> <<"T", "i", "m", "e", "s", "t", "a", "m", "p">>) @@
    ("VARCHAR(64)" :> <<"V", "A", "R", "C", "H", "A", "R", "(", "6", "4", ")">>) @@
    ("DECIMAL(10,2)" :> <<"D", "E", "C", "I", "M", "A", "L", "(", "1", "0", ",", "2", ")">>)

\* COLUMN_TYPE_COMPATIBLE_MAPPINGS["PASS"], lines 44-69: each base type with
\* its compatible types, in the order of the dictionary.
PASS_MAPPINGS == <<
    <<T["INT"], <<T["INTEGER"], T["BIGINT"], T["DECIMAL"]>>>>,
    <<T["INTEGER"], <<T["INT"], T["BIGINT"], T["DECIMAL"]>>>>,
    <<T["VARCHAR"], <<T["NVARCHAR"], T["TEXT"]>>>>,
    <<T["NUMERIC"], <<T["DECIMAL"], T["FLOAT"]>>>>,
    <<T["DATE"], <<T["DATETIME"], T["TIMESTAMP"]>>>>,
    <<T["BINARY"], <<T["VARBINARY"]>>>>,
    <<T["VARBINARY"], <<T["BINARY"]>>>>,
    <<T["BIT"], <<T["BOOLEAN"], T["TINYINT"], T["BOOL"], T["INTEGER"]>>>>,
    <<T["SMALLINT"], <<T["INTEGER"]>>>>,
    <<T["BOOLEAN"], <<T["BIT"], T["BOOL"]>>>>,
    <<T["TIMESTAMP"], <<T["DATE"], T["DATETIME"]>>>>,
    <<T["DATETIME"], <<T["DATE"], T["TIMESTAMP"]>>>>,
    <<T["DECIMAL"], <<T["NUMERIC"], T["FLOAT"], T["DOUBLE"]>>>>,
    <<T["NVARCHAR"], <<T["VARCHAR"], T["TEXT"]>>>>,
    <<T["BIGINT"], <<T["INT"], T["INTEGER"], T["DECIMAL"]>>>>,
    <<T["FLOAT"], <<T["REAL"], T["DOUBLE"]>>>>,
    <<T["REAL"], <<T["FLOAT"], T["DOUBLE"]>>>>,
    <<T["DOUBLE"], <<T["FLOAT"], T["REAL"]>>>>,
    <<T["CHAR"], <<T["NCHAR"], T["VARCHAR"], T["TEXT"]>>>>,
    <<T["NCHAR"], <<T["CHAR"]>>>>,
    <<T["TEXT"], <<T["VARCHAR"], T["NVARCHAR"]>>>> >>

\* COLUMN_TYPE_COMPATIBLE_MAPPINGS["WARNING"], lines 70-78.
WARNING_MAPPINGS == <<
    <<T["DECIMAL"], <<T["INT"], T["INTEGER"], T["BIGINT"], T["DECIMAL"]>>>>,
    <<T["INTEGER"], <<T["BIT"], T["FLOAT"], T["VARCHAR"]>>>>,
    <<T["FLOAT"], <<T["INT"], T["INTEGER"], T["BIGINT"]>>>>,
    <<T["DOUBLE"], <<T["INT"], T["INTEGER"], T["BIGINT"]>>>>,
    <<T["NUMERIC"], <<T["INT"], T["INTEGER"], T["BIGINT"]>>>>,
    <<T["BIGINT"], <<T["INT"], T["INTEGER"], T["DECIMAL"], T["NUMERIC"]>>>> >>


\* str.upper() and str.lower() on the letters.
Letters == [lower |-> <<"a", "b", "c", "d", "e", "f", "g", "h", "i", "j", "k", "l", "m", "n", "o", "p", "q", "r", "s", "t", "u", "v", "w", "x", "y", "z">>,
            upper |-> <<"A", "B", "C", "D", "E", "F", "G", "H", "I", "J", "K", "L", "M", "N", "O", "P", "Q", "R", "S", "T", "U", "V", "W", "X", "Y", "Z">>]
Upper(s) ==
    [i \in 1..Len(s) |->
        IF \E k \in 1..Len(Letters.lower) : Letters.lower[k] = s[i]
        THEN Letters.upper[CHOOSE k \in 1..Len(Letters.lower) : Letters.lower[k] = s[i]]
        ELSE s[i]]
LowerStr(s) ==
    [i \in 1..Len(s) |->
        IF \E k \in 1..Len(Letters.upper) : Letters.upper[k] = s[i]
        THEN Letters.lower[CHOOSE k \in 1..Len(Letters.upper) : Letters.upper[k] = s[i]]
        ELSE s[i]]

\* str.startswith and the substring test "base in s".
StartsWith(s, prefix) ==
    /\ Len(prefix) <= Len(s)
    /\ \A i \in 1..Len(prefix) : s[i] = prefix[i]
Contains(s, part) ==
    \E k \in 0..(Len(s) - Len(part)) :
        \A i \in 1..Len(part) : s[k + i] = part[i]

\* str.strip() on a text whose only white space is the blank.
RECURSIVE LStrip(_)
LStrip(s) == IF s # <<>> /\ Head(s) = " " THEN LStrip(Tail(s)) ELSE s
RECURSIVE RStrip(_)
RStrip(s) ==
    IF s # <<>> /\ s[Len(s)] = " " THEN RStrip(SubSeq(s, 1, Len(s) - 1)) ELSE s
Strip(s) == RStrip(LStrip(s))

\* The variables of the other specifications, for one that only uses call.
OthersIdle ==
    /\ lat = LatIdle
    /\ task = TaskIdle
    /\ mappings = <<>>
    /\ settings = [pc |-> "idle"]
    /\ phase = "idle"
    /\ futures = <<>>
    /\ results = <<>>
    /\ overall = [pc |-> "idle"]

(* Column type compatibility: _are_types_compatible                        *)

\* Lines 580-590 and 592-602: some base type of the table is contained in
\* the source type and the target type starts with one of its compatible
\* types.
InMappings(mappings_table, source_type, target_type) ==
    \E b \in 1..Len(mappings_table) :
        /\ Contains(source_type, mappings_table[b][1])
        /\ \E c \in 1..Len(mappings_table[b][2]) :
                StartsWith(target_type, mappings_table[b][2][c])

DataTypesCompatibleResult(result, issue) == [result |-> result, issue |-> issue]

\* Mutant: the WARNING table is consulted before the PASS table.
_are_types_compatible_warning_first(source_type, target_type) ==
    LET source == Upper(source_type)
        target == Upper(target_type)
    IN  IF source = target
        THEN DataTypesCompatibleResult("PASS", None)
        ELSE IF InMappings(WARNING_MAPPINGS, source, target)
        THEN DataTypesCompatibleResult("WARNING",
                Some(ValidationIssue("type_compatible_", "WARNING",
                                     <<source, target>>)))
        ELSE IF InMappings(PASS_MAPPINGS, source, target)
        THEN DataTypesCompatibleResult("PASS", None)
        ELSE DataTypesCompatibleResult("FAIL",
                Some(ValidationIssue("fail_type_compatible_", "FAIL",
                                     <<source, target>>)))

\* Lines 569-618. The arg of the issue is the pair of upper-cased names
\* printed in its issue type.
_are_types_compatible(source_type, target_type) ==
    LET source == Upper(source_type)
        target == Upper(target_type)
    IN  IF source = target
        THEN DataTypesCompatibleResult("PASS", None)
        ELSE IF InMappings(PASS_MAPPINGS, source, target)
        THEN DataTypesCompatibleResult("PASS", None)
        ELSE IF InMappings(WARNING_MAPPINGS, source, target)
        THEN DataTypesCompatibleResult("WARNING",
                Some(ValidationIssue("type_compatible_", "WARNING",
                                     <<source, target>>)))
        ELSE DataTypesCompatibleResult("FAIL",
                Some(ValidationIssue("fail_type_compatible_", "FAIL",
                                     <<source, target>>)))

\* The calls of _are_types_compatible: column types as the inspectors print
\* them.
TypeCalls ==
    LET types == {T["INT"], T["int"], T["BIGINT"], T["bigint"], T["INTEGER"],
                  T["VARCHAR(64)"], T["varchar"], T["NVARCHAR"],
                  T["DECIMAL(10,2)"], T["FLOAT"], T["XML"], T["BIT"],
                  T["Timestamp"], T["DATE"]}
    IN  [fn : {"_are_types_compatible"}, pc : {"start"},
         source_type : types, target_type : types, out : {None}]

Classify ==
    /\ call.fn = "_are_types_compatible" /\ call.pc = "start"
    /\ call' = [call EXCEPT !.pc = "done",
                    !.out = _are_types_compatible(call.source_type,
                                                  call.target_type)]
    /\ UNCHANGED <<lat, task, mappings, settings, phase, futures, results, overall>>

(* The Schema Comparator: _validate_single_schema                          *)

\* The column names of the two tables, in sorted order.
ColumnNames == <<"id", "name">>

\* sorted(list(names)) of a set of column names.
SortedNames(names) ==
    LET ranks == SetToSortedSeq({NameRank(n, ColumnNames) : n \in names})
    IN  [p \in 1..Len(ranks) |-> ColumnNames[ranks[p]]]

\* Lines 381-437: the issues of the existence and column checks.
SchemaExistenceIssues(source, target) ==
    (IF ~source.exist
     THEN <<ValidationIssue("no_source_table", "FAIL", 0)>>
     ELSE IF DOMAIN source.columns = {}
     THEN <<ValidationIssue("no_columns_source_table", "FAIL", 0)>>
     ELSE <<>>)
    \o
    (IF ~target.exist
     THEN <<ValidationIssue("no_target_table", "FAIL", 0)>>
     ELSE IF DOMAIN target.columns = {}
     THEN <<ValidationIssue("no_column_target_table", "FAIL", 0)>>
     ELSE <<>>)

\* Mutant: the severities of the type issues are not taken into account.
RaiseByIssuesIgnored(status, issues) == status

\* Lines 509-515: a status raised to the severity of each issue in turn.
RECURSIVE RaiseByIssues(_, _)
RaiseByIssues(status, issues) ==
    IF issues = <<>> THEN status
    ELSE RaiseByIssues(raise_status_level_to(status, Head(issues).severity),
                       Tail(issues))

\* Lines 516-517: the issues not yet in the list are appended.
RECURSIVE AppendNew(_, _)
AppendNew(validation_issues, issues) ==
    IF issues = <<>> THEN validation_issues
    ELSE IF InSeq(Head(issues), validation_issues)
    THEN AppendNew(validation_issues, Tail(issues))
    ELSE AppendNew(Append(validation_issues, Head(issues)), Tail(issues))

\* Lines 372-539. common_order is the order in which the set of common
\* columns is iterated at line 459. The lists the early return leaves out
\* keep the dataclass default None.
_validate_single_schema(source, target, common_order) ==
    LET existence_issues == SchemaExistenceIssues(source, target)
        source_col_names == DOMAIN source.columns
        target_col_names == DOMAIN target.columns
        missing_columns == SortedNames(source_col_names \ target_col_names)
        extra_columns == SortedNames(target_col_names \ source_col_names)
        check(i) == _are_types_compatible(source.columns[common_order[i]],
                                          target.columns[common_order[i]])
        mismatched == SelectSeq([i \in 1..Len(common_order) |-> i],
                                LAMBDA i : check(i).result # "PASS")
        type_mismatches ==
            [k \in 1..Len(mismatched) |->
                [column |-> common_order[mismatched[k]],
                 source_type |-> source.columns[common_order[mismatched[k]]],
                 target_type |-> target.columns[common_order[mismatched[k]]]]]
        type_mismatches_issues ==
            [k \in 1..Len(mismatched) |-> Val(check(mismatched[k]).issue)]
        status1 == IF extra_columns # <<>>
                   THEN raise_status_level_to("PASS", "WARNING") ELSE "PASS"
        issues1 == IF extra_columns # <<>>
                   THEN <<ValidationIssue("extra_columns_in_target", "WARNING",
                                          Len(extra_columns))>>
                   ELSE <<>>
        status2 == IF missing_columns # <<>>
                   THEN raise_status_level_to(status1, "FAIL") ELSE status1
        issues2 == IF missing_columns # <<>>
                   THEN Append(issues1,
                               ValidationIssue("missing_columns_in_target",
                                               "FAIL", Len(missing_columns)))
                   ELSE issues1
        severity == RaiseByIssues("WARNING", type_mismatches_issues)
        status3 == IF type_mismatches # <<>>
                   THEN RaiseByIssues(raise_status_level_to(status2, "WARNING"),
                                      type_mismatches_issues)
                   ELSE status2
        issues3 == IF type_mismatches # <<>>
                   THEN Append(AppendNew(issues2, type_mismatches_issues),
                               ValidationIssue("type_mismatches_columns",
                                               severity, Len(type_mismatches)))
                   ELSE issues2
    IN  IF existence_issues # <<>>
        THEN [status |-> "FAIL",
              source_col_names |-> SortedNames(source_col_names),
              target_col_names |-> SortedNames(target_col_names),
              missing_columns |-> None,
              extra_columns |-> None,
              type_mismatches |-> None,
              validation_issues |-> existence_issues]
        ELSE [status |-> status3,
              source_col_names |-> SortedNames(source_col_names),
              target_col_names |-> SortedNames(target_col_names),
              missing_columns |-> Some(missing_columns),
              extra_columns |-> Some(extra_columns),
              type_mismatches |-> Some(type_mismatches),
              validation_issues |-> issues3]

\* The calls of _validate_single_schema. A side is what the inspector shows
\* of a table: whether it exists and, when it does, its columns with their
\* types; no columns also stands for an inspection that failed
\* (_get_table_columns, lines 541-567).
SchemaCalls ==
    LET types == {T["INT"], T["DECIMAL"], T["XML"]}
        column_maps == UNION {[S -> types] : S \in SUBSET SeqToSet(ColumnNames)}
        sides == {[exist |-> FALSE, columns |-> <<>>]}
                    \cup {[exist |-> TRUE, columns |-> c] : c \in column_maps}
    IN  [fn : {"_validate_single_schema"}, pc : {"start"},
         source : sides, target : sides, out : {None}]

ValidateSingleSchema ==
    /\ call.fn = "_validate_single_schema" /\ call.pc = "start"
    /\ LET common == DOMAIN call.source.columns \cap DOMAIN call.target.columns
       IN  \E common_order \in {order \in [1..Cardinality(common) -> common] :
                    \A i, j \in 1..Cardinality(common) :
                        order[i] = order[j] => i = j} :
                call' = [call EXCEPT !.pc = "done",
                            !.out = _validate_single_schema(call.source,
                                        call.target, common_order)]
    /\ UNCHANGED <<lat, task, mappings, settings, phase, futures, results, overall>>

(* Cast-type suffixes of key columns:                                      *)
(* build_key_columns_cast_types_from_key_columns                           *)

MaxKeyLen == 3

\* Mutant: the separators in the order they are written at line 191.
type_casting_separators_unsorted ==
    << <<">">>, <<"-", ">">>, <<"=", ">">>, <<":">>, <<"|">> >>

\* Lines 191-196: the separators sorted by length, longest first; sorted()
\* keeps the written order of separators of equal length.
type_casting_separators ==
    LET written == << <<">">>, <<"-", ">">>, <<"=", ">">>, <<":">>, <<"|">> >>
    IN  StableSortBy(written, [i \in 1..Len(written) |-> Len(written[i])], TRUE)

\* The index at which the first occurrence of part starts in s.
FirstOccurrence(s, part) ==
    CHOOSE k \in 1..(Len(s) - Len(part) + 1) :
        /\ \A i \in 1..Len(part) : s[k + i - 1] = part[i]
        /\ \A j \in 1..(k - 1) : \E i \in 1..Len(part) : s[j + i - 1] # part[i]

\* Lines 206-219: the column name and the cast type of one key column; the
\* separators from position from on are still to be tried. parts is
\* key_column.split(separator, 1).
RECURSIVE ParseKeyColumn(_, _)
ParseKeyColumn(key_column, from) ==
    IF from > Len(type_casting_separators)
    THEN [column_name |-> key_column, cast_type |-> None]
    ELSE IF Contains(key_column, type_casting_separators[from])
    THEN LET separator == type_casting_separators[from]
             k == FirstOccurrence(key_column, separator)
             parts == <<SubSeq(key_column, 1, k - 1),
                        SubSeq(key_column, k + Len(separator), Len(key_column))>>
         IN  [column_name |-> Strip(parts[1]), cast_type |-> Some(Strip(parts[2]))]
    ELSE ParseKeyColumn(key_column, from + 1)

\* Lines 198-223 on one mapping: the two lists are rebuilt when there are key
\* columns and the cast types are absent, empty or of another length.
build_key_columns_cast_types_from_key_columns(mapping) ==
    IF /\ mapping.key_columns # <<>>
       /\ \/ IsNone(mapping.key_columns_cast_types)
          \/ Val(mapping.key_columns_cast_types) = <<>>
          \/ Len(Val(mapping.key_columns_cast_types)) # Len(mapping.key_columns)
    THEN [key_columns |->
            [i \in 1..Len(mapping.key_columns) |->
                ParseKeyColumn(mapping.key_columns[i], 1).column_name],
          key_columns_cast_types |->
            Some([i \in 1..Len(mapping.key_columns) |->
                ParseKeyColumn(mapping.key_columns[i], 1).cast_type])]
    ELSE mapping

\* The calls of build_key_columns_cast_types_from_key_columns. The key
\* columns are every text of up to MaxKeyLen characters and some longer
\* ones (COL -> INTEGER, A=>B, IS > BOOL, A:B>C, A>B->C, COL), as
\* TableMapping.__post_init__ leaves them: stripped and not empty. A mapping
\* has no key column, one key column, or two of the longer ones; its cast
\* types are absent, empty, or one written out in the configuration.
CastCalls ==
    LET chars == {"A", " ", "-", "=", ">", ":", "|"}
        long == {<<"C", "O", "L", " ", "-", ">", " ">> \o T["INTEGER"],
                 <<"A", "=", ">", "B">>,
                 <<"I", "S", " ", ">", " ">> \o T["BOOL"],
                 <<"A", ":", "B", ">", "C">>,
                 <<"A", ">", "B", "-", ">", "C">>,
                 <<"C", "O", "L">>}
        short == {s \in UNION {[1..n -> chars] : n \in 1..MaxKeyLen} : Strip(s) = s}
    IN  {[fn |-> "build_key_columns_cast_types_from_key_columns", pc |-> "start",
          mapping |-> m, out |-> None] :
            m \in [key_columns : {<<>>} \cup {<<k>> : k \in short \cup long}
                                    \cup {<<k1, k2>> : k1 \in long, k2 \in long},
                   key_columns_cast_types :
                        {None, Some(<<>>), Some(<<Some(T["INT"])>>)}]}

BuildCastTypes ==
    /\ call.fn = "build_key_columns_cast_types_from_key_columns"
    /\ call.pc = "start"
    /\ call' = [call EXCEPT !.pc = "done",
                    !.out = build_key_columns_cast_types_from_key_columns(call.mapping)]
    /\ UNCHANGED <<lat, task, mappings, settings, phase, futures, results, overall>>

(* The key sets of the two samples: _compare_sample_data, lines 1502-1563, *)
(* and CompareSampleDataResult.success_rate_of_2_sets                      *)

\* str(x) of a key, as the sequence of its digits.
StrOfKey(x) == IF x < 10 THEN <<x>> ELSE <<x \div 10, x % 10>>

\* s < t on texts of digits.
RECURSIVE StrLess(_, _)
StrLess(s, t) ==
    IF t = <<>> THEN FALSE
    ELSE IF s = <<>> THEN TRUE
    ELSE IF Head(s) # Head(t) THEN Head(s) < Head(t)
    ELSE StrLess(Tail(s), Tail(t))

\* sorted() of a set of different texts.
SortedStrings(strings) ==
    [p \in 1..Cardinality(strings) |->
        CHOOSE s \in strings :
            Cardinality({t \in strings : StrLess(t, s)}) = p - 1]

\* set_default_number_of_set_sample_records_for_detailed_report, lines
\* 105-123, with the default of the settings.
DefaultReportSamples == 5
number_of_set_sample_records_for_detailed_report(configured) ==
    IF Truthy(configured) THEN Val(configured) ELSE DefaultReportSamples

\* itertools.islice(keys, n): the first n keys in the iteration order of the
\* set, which is any order.
Islices(keys, n) ==
    {picked \in SUBSET keys : Cardinality(picked) = Min2(n, Cardinality(keys))}

\* Lines 1534-1561: the string forms of the picked keys, sorted.
KeysSample(picked) == SortedStrings({StrOfKey(x) : x \in picked})

\* Mutant: the matching keys are related to the smaller of the two sets.
success_rate_of_2_sets_of_smaller(c) ==
    LET denominator == Min2(c.source_sample_set_count, c.target_sample_set_count)
    IN  IF denominator = 0 THEN [num |-> 0, den |-> 1]
        ELSE [num |-> c.matching_set_record_count * 100, den |-> denominator]

\* CompareSampleDataResult.success_rate_of_2_sets, lines 48-59: the percentage
\* as the fraction num / den.
success_rate_of_2_sets(c) ==
    LET denominator == Max2(c.source_sample_set_count, c.target_sample_set_count)
    IN  IF denominator = 0 THEN [num |-> 0, den |-> 1]
        ELSE [num |-> c.matching_set_record_count * 100, den |-> denominator]

\* Lines 1502-1563 on the two key sets; the three picks are what islice
\* yields for the matching keys and for each side's unmatched keys.
CompareKeySets(source_keys_set, target_keys_set, picks) ==
    LET matching_keys_set == source_keys_set \cap target_keys_set
        c == [source_sample_set_count |-> Cardinality(source_keys_set),
              target_sample_set_count |-> Cardinality(target_keys_set),
              matching_set_record_count |-> Cardinality(matching_keys_set)]
    IN  [source_sample_set_count |-> c.source_sample_set_count,
         target_sample_set_count |-> c.target_sample_set_count,
         matching_set_record_count |-> c.matching_set_record_count,
         success_rate_of_2_sets |-> success_rate_of_2_sets(c),
         matching_keys_set_sample |-> KeysSample(picks[1]),
         source_unmatched_keys_sample |-> KeysSample(picks[2]),
         target_unmatched_keys_sample |-> KeysSample(picks[3])]

\* The calls of the key set comparison: the values of the key column in the
\* sampled rows of each side (a key is the tuple of one value), and the
\* report-sample-count of the mapping.
SetCalls ==
    LET values == {1, 2, 3, 4, 10}
    IN  [fn : {"_compare_sample_data"}, pc : {"start"},
         source_keys_set : SUBSET values, target_keys_set : SUBSET values,
         report_samples : {None, Some(0), Some(2)}, out : {None}]

CompareSets ==
    /\ call.fn = "_compare_sample_data" /\ call.pc = "start"
    /\ LET k == number_of_set_sample_records_for_detailed_report(call.report_samples)
           matching_keys_set == call.source_keys_set \cap call.target_keys_set
       IN  \E picks \in Islices(matching_keys_set, k)
                        \X Islices(call.source_keys_set \ matching_keys_set, k)
                        \X Islices(call.target_keys_set \ matching_keys_set, k) :
                call' = [call EXCEPT !.pc = "done",
                            !.out = CompareKeySets(call.source_keys_set,
                                                   call.target_keys_set, picks)]
    /\ UNCHANGED <<lat, task, mappings, settings, phase, futures, results, overall>>

(* The rule-based column validator: _rule_based_data_validation on one     *)
(* column whose rule has no pattern of its own                             *)

MaxRows == 4

\* A value of the column in the sampled rows: whether pandas takes it for
\* missing (None, NaN), whether it is a number, and its str().
Item(is_na, is_number, str) == [is_na |-> is_na, is_number |-> is_number, str |-> str]

\* normalize_item_data_end_with_dot_0, lines 6-24.
normalize_item_data_end_with_dot_0(item_data) ==
    LET item_data_str == item_data.str
        n == Len(item_data_str)
    IN  IF /\ item_data.is_number
           /\ n > 2
           /\ SubSeq(item_data_str, n - 1, n) = <<".", "0">>
        THEN SubSeq(item_data_str, 1, n - 2)
        ELSE item_data_str

\* text_mean_none, src/text_mean_none.py.
text_mean_none(text) ==
    LowerStr(Strip(text)) \in
        {<<"n", "o", "n", "e">>, <<"n", "a", "n">>, <<"n", "u", "l", "l">>,
         <<"n", "/", "a">>, <<"n", "a">>, <<>>,
         <<"u", "n", "d", "e", "f", "i", "n", "e", "d">>}

\* regex.fullmatch of the default pattern ^.*$: any text without a line end.
FullMatchDefaultPattern(text) == \A i \in 1..Len(text) : text[i] # "\n"

\* Lines 1045-1069 and 1104-1124: the items of the column in order; an
\* absent nullable or unique rule counts as false; acc holds matched_set,
\* non_matched_set and the number of failed records so far.
RECURSIVE MatchItems(_, _, _)
MatchItems(column_data, rule, acc) ==
    IF column_data = <<>> THEN acc
    ELSE LET value_can_be_null ==
                IF IsNone(rule.nullable) THEN FALSE ELSE Val(rule.nullable)
             value_must_be_unique ==
                IF IsNone(rule.unique) THEN FALSE ELSE Val(rule.unique)
             item_data == Head(column_data)
             normalized_item_data == normalize_item_data_end_with_dot_0(item_data)
             next ==
                IF (item_data.is_na \/ text_mean_none(normalized_item_data))
                   /\ value_can_be_null
                THEN [acc EXCEPT !.matched_set = @ \cup {normalized_item_data}]
                ELSE IF value_must_be_unique
                        /\ normalized_item_data \in acc.matched_set
                THEN [acc EXCEPT !.non_matched_set = @ \cup {normalized_item_data},
                                 !.failed = @ + 1]
                ELSE IF ~FullMatchDefaultPattern(normalized_item_data)
                THEN [acc EXCEPT !.non_matched_set = @ \cup {normalized_item_data},
                                 !.failed = @ + 1]
                ELSE [acc EXCEPT !.matched_set = @ \cup {normalized_item_data}]
         IN  MatchItems(Tail(column_data), rule, next)

\* Lines 1030-1132 for the column.
_rule_based_data_validation(column_data, rule) ==
    LET acc == MatchItems(column_data, rule,
                          [matched_set |-> {}, non_matched_set |-> {}, failed |-> 0])
    IN  [total_records |-> Len(column_data),
         passed_records_count |-> Len(column_data) - acc.failed,
         failed_records_count |-> acc.failed,
         failed_set |-> acc.non_matched_set,
         success_set |-> acc.matched_set]

\* The calls of _rule_based_data_validation: up to MaxRows values among 1, 2,
\* 1.0, None and the text N/A, and the rule of the column in the mapping's
\* rule_based_data_validation: nullable and unique each absent or written,
\* the pattern absent or written as the default pattern, no description.
RuleCalls ==
    LET items == {Item(FALSE, TRUE, <<"1">>), Item(FALSE, TRUE, <<"2">>),
                  Item(FALSE, TRUE, <<"1", ".", "0">>),
                  Item(TRUE, FALSE, <<"N", "o", "n", "e">>),
                  Item(FALSE, FALSE, <<"N", "/", "A">>)}
    IN  [fn : {"_rule_based_data_validation"}, pc : {"start"},
         column_data : UNION {[1..n -> items] : n \in 0..MaxRows},
         rule : [nullable : {None, Some(FALSE), Some(TRUE)},
                 unique : {None, Some(TRUE)}],
         pattern : {None, Some("^.*$")},
         pattern_regex_description : {None},
         out : {None}]

\* Lines 1072-1095 write the default pattern and its description into the
\* rule of the column when it has no pattern: filtered_rules holds the
\* rule dictionaries of the mapping themselves (lines 1021-1025).
RuleBasedDataValidation ==
    /\ call.fn = "_rule_based_data_validation" /\ call.pc = "start"
    /\ LET value_can_be_null ==
                IF IsNone(call.rule.nullable) THEN FALSE ELSE Val(call.rule.nullable)
           value_must_be_unique ==
                IF IsNone(call.rule.unique) THEN FALSE ELSE Val(call.rule.unique)
           unique_and_not_null_desc ==
                (IF value_must_be_unique THEN <<"Have to be unique">> ELSE <<>>)
                    \o (IF ~value_can_be_null THEN <<"not null">> ELSE <<>>)
       IN  call' = [call EXCEPT !.pc = "done",
                        !.out = _rule_based_data_validation(call.column_data,
                                                            call.rule),
                        !.pattern = IF IsNone(@) THEN Some("^.*$") ELSE @,
                        !.pattern_regex_description =
                            IF IsNone(call.pattern)
                            THEN Some(<<"Accept any value">>
                                        \o unique_and_not_null_desc)
                            ELSE @]
    /\ UNCHANGED <<lat, task, mappings, settings, phase, futures, results, overall>>

(* The distribution-based column validator:                                *)
(* _distribution_based_data_validation on one column with one category in  *)
(* its expected distribution                                               *)

\* Lines 1227-1413 for the column: the statistics of its category. The
\* items are counted under the lower-cased name of the category (lines
\* 1268-1307); the expected distribution has no "null" category and no "or"
\* list.
_distribution_based_data_validation(column_data, dist) ==
    LET count == Cardinality({i \in 1..Len(column_data) :
                    LowerStr(normalize_item_data_end_with_dot_0(column_data[i]))
                        = <<Lower(dist.name)>>})
    IN  [total_records |-> Len(column_data),
         value |-> Lower(dist.name),
         count |-> count,
         issue |-> DistributionIssues(dist, count, Len(column_data))]

\* The calls of _distribution_based_data_validation: up to MaxRows values
\* among A, a, b and None, and the category under the name it is written
\* with, with its bounds.
DistCalls ==
    LET items == {Item(FALSE, FALSE, <<"A">>), Item(FALSE, FALSE, <<"a">>),
                  Item(FALSE, FALSE, <<"b">>),
                  Item(TRUE, FALSE, <<"N", "o", "n", "e">>)}
    IN  [fn : {"_distribution_based_data_validation"}, pc : {"start"},
         column_data : UNION {[1..n -> items] : n \in 0..MaxRows},
         dist : [name : {"a", "A"},
                 min_count : {None, Some(2)}, max_count : {None, Some(1)},
                 min_percent : {None, Some(50)}, max_percent : {None, Some(50)}],
         out : {None}]

DistributionBasedDataValidation ==
    /\ call.fn = "_distribution_based_data_validation" /\ call.pc = "start"
    /\ call' = [call EXCEPT !.pc = "done",
                    !.out = _distribution_based_data_validation(call.column_data,
                                                                call.dist)]
    /\ UNCHANGED <<lat, task, mappings, settings, phase, futures, results, overall>>

(* The aggregator's sort and group step on a list of data results          *)

\* The calls of sort_results_and_add_data_match_validation_result_grouped:
\* up to MaxMappings collected data results of the tables A (PASS, one key
\* column) and B (FAIL, no key column), each without group or with a group
\* name of the configuration, and the sorting settings of a run.
GroupCalls ==
    LET result_choices ==
            {DataMatchValidationResult(
                [source_table |-> t, target_table |-> t, group |-> g,
                 key_columns |-> IF t = "A" THEN <<"ID">> ELSE <<>>],
                IF t = "A" THEN "PASS" ELSE "FAIL", <<>>, <<>>) :
             t \in {"A", "B"},
             g \in {None, Some("g1"), Some("g2"), Some("_no_group_")}}
    IN  [fn : {"sort_results_and_add_data_match_validation_result_grouped"},
         pc : {"start"},
         self : {[schema_validation_results |-> <<>>,
                  data_match_validation_result |-> collected,
                  data_match_validation_result_grouped |-> <<>>] :
                 collected \in UNION {[1..n -> result_choices] :
                                        n \in 0..MaxMappings}},
         run : RunChoices, out : {None}]

SortAndGroup ==
    /\ call.fn = "sort_results_and_add_data_match_validation_result_grouped"
    /\ call.pc = "start"
    /\ call' = [call EXCEPT !.pc = "done",
                    !.out = sort_results_and_add_data_match_validation_result_grouped(
                                call.self, call.run)]
    /\ UNCHANGED <<lat, task, mappings, settings, phase, futures, results, overall>>

(* TableMapping.__post_init__: the construction of a Table Mapping         *)

\* sep.join(texts)
RECURSIVE Join(_, _)
Join(texts, sep) ==
    IF texts = <<>> THEN <<>>
    ELSE IF Len(texts) = 1 THEN Head(texts)
    ELSE Head(texts) \o sep \o Join(Tail(texts), sep)

\* TableMapping.__post_init__, lines 31-71, on the arguments of the
\* constructor; an argument left out is None, the default of its field.
\* set_order is the order in which set(self.key_columns) is iterated at
\* line 68. The result is the exception raised, or the fields of the
\* mapping.
TableMapping(args, set_order) ==
    LET source_given == ~IsNone(args.source_table) /\ Val(args.source_table) # <<>>
        target_given == ~IsNone(args.target_table) /\ Val(args.target_table) # <<>>
        source_table == IF source_given THEN Val(args.source_table)
                        ELSE Val(args.target_table)
        target_table == IF ~source_given \/ target_given
                        THEN Val(args.target_table)
                        ELSE Val(args.source_table)
        given_columns == IF IsNone(args.key_columns) THEN <<>>
                         ELSE Val(args.key_columns)
        stripped == [i \in 1..Len(given_columns) |-> Strip(given_columns[i])]
        key_columns == SelectSeq(stripped, LAMBDA col : col # <<>>)
        id_given == ~IsNone(args.unique_data_mapping_id)
                        /\ Val(args.unique_data_mapping_id) # <<>>
    IN  IF ~source_given /\ ~target_given
        THEN [raised |-> "ValueError"]
        ELSE IF ~id_given /\ IsNone(args.data_transformation_rules)
        THEN [raised |-> "TypeError"]
        ELSE [raised |-> "",
              source_table |-> source_table,
              target_table |-> target_table,
              key_columns |-> key_columns,
              unique_data_mapping_id |->
                IF id_given THEN Val(args.unique_data_mapping_id)
                ELSE source_table \o <<"|">> \o target_table \o <<"|">>
                        \o Join(set_order, <<",">>) \o <<"|">>
                        \o Join(Val(args.data_transformation_rules), <<",">>)]

\* The constructions of a Table Mapping: each name, the key columns, the
\* transformation rules and the identifier left out or given (a name or an
\* identifier also given empty), key columns with blanks around them or
\* blank. The mapping is constructed a second time, from the same
\* arguments or with the key columns listed in the reverse order.
MappingCalls ==
    LET columns == {<<"I", "D">>, <<"K">>, <<" ", "I", "D">>, <<" ">>}
    IN  [fn : {"TableMapping"}, pc : {"start"},
         source_table : {None, Some(<<>>), Some(<<"A">>)},
         target_table : {None, Some(<<>>), Some(<<"B">>)},
         key_columns : {None} \cup {Some(k) : k \in UNION {[1..n -> columns] : n \in 0..2}},
         data_transformation_rules : {None, Some(<<>>), Some(<< <<"r">> >>)},
         unique_data_mapping_id : {None, Some(<<>>), Some(<<"x">>)},
         reversed : {FALSE, TRUE},
         out : {None}, again : {None}]

ConstructTableMapping ==
    /\ call.fn = "TableMapping" /\ call.pc = "start"
    /\ LET second ==
            IF call.reversed /\ ~IsNone(call.key_columns)
            THEN [call EXCEPT !.key_columns =
                    Some([i \in 1..Len(Val(@)) |-> Val(@)[Len(Val(@)) + 1 - i]])]
            ELSE call
           keys == IF IsNone(call.key_columns) THEN {}
                   ELSE {Strip(col) : col \in SeqToSet(Val(call.key_columns))} \ {<<>>}
           orders == {order \in [1..Cardinality(keys) -> keys] :
                        \A i, j \in 1..Cardinality(keys) :
                            order[i] = order[j] => i = j}
       IN  \E first_order \in orders, second_order \in orders :
                call' = [call EXCEPT !.pc = "done",
                            !.out = Some(TableMapping(call, first_order)),
                            !.again = Some(TableMapping(second, second_order))]
    /\ UNCHANGED <<lat, task, mappings, settings, phase, futures, results, overall>>

(* OverallValidationResult: the status properties of a run                 *)

\* Lines 41-63.
overall_status_table_result(self) ==
    LET statuses == {self.data_match_validation_result[i].status :
                        i \in 1..Len(self.data_match_validation_result)}
    IN  IF Len(self.data_match_validation_result) = 0 THEN "SKIP"
        ELSE IF "FAIL" \in statuses THEN "FAIL"
        ELSE IF "WARNING" \in statuses THEN "WARNING"
        ELSE "PASS"

\* Lines 136-158.
overall_status_schema_result(self) ==
    LET statuses == {self.schema_validation_results[i].status :
                        i \in 1..Len(self.schema_validation_results)}
    IN  IF Len(self.schema_validation_results) = 0 THEN "SKIP"
        ELSE IF "FAIL" \in statuses THEN "FAIL"
        ELSE IF "WARNING" \in statuses THEN "WARNING"
        ELSE "PASS"

\* Lines 160-182.
overall_status(self) ==
    LET table_status == overall_status_table_result(self)
        schema_status == overall_status_schema_result(self)
    IN  IF table_status = "FAIL" \/ schema_status = "FAIL" THEN "FAIL"
        ELSE IF table_status = "WARNING" \/ schema_status = "WARNING"
        THEN "WARNING"
        ELSE IF table_status = "PASS" /\ schema_status = "PASS" THEN "PASS"
        ELSE "SKIP"

\* The reads of the three properties on a finished run: up to MaxMappings
\* schema results and data results, each with a status a task can return.
\* An empty list is a phase that was disabled or had nothing to do.
OverallCalls ==
    LET status_lists == UNION {[1..n -> [status : {"PASS", "WARNING", "FAIL"}]] :
                                n \in 0..MaxMappings}
    IN  [fn : {"overall_status"}, pc : {"start"},
         self : [schema_validation_results : status_lists,
                 data_match_validation_result : status_lists],
         out : {None}]

OverallStatus ==
    /\ call.fn = "overall_status"
    /\ call.pc = "start"
    /\ call' = [call EXCEPT !.pc = "done",
                    !.out = Some([
                        overall_status_table_result |->
                            overall_status_table_result(call.self),
                        overall_status_schema_result |->
                            overall_status_schema_result(call.self),
                        overall_status |-> overall_status(call.self)])]
    /\ UNCHANGED <<lat, task, mappings, settings, phase, futures, results, overall>>

(* The specification of the calls                                          *)

CallsInit ==
    /\ call \in TypeCalls \cup SchemaCalls \cup CastCalls \cup SetCalls
                    \cup RuleCalls \cup DistCalls \cup GroupCalls
                    \cup MappingCalls \cup OverallCalls
    /\ OthersIdle

CallsNext ==
    \/ Classify
    \/ ValidateSingleSchema
    \/ BuildCastTypes
    \/ CompareSets
    \/ RuleBasedDataValidation
    \/ DistributionBasedDataValidation
    \/ SortAndGroup
    \/ ConstructTableMapping
    \/ OverallStatus

SpecCalls == CallsInit /\ [][CallsNext]_vars

\* The function fn has been called and has returned.
Called(fn) == call.pc = "done" /\ call.fn = fn

-----------------------------------------------------------------------------
(* Column types: claim C13                                                 *)


\* The pairs (base type, compatible type) of a table.
MappingPairs(mappings_table) ==
    UNION {{<<mappings_table[b][1], mappings_table[b][2][c]>> :
                c \in 1..Len(mappings_table[b][2])} :
           b \in 1..Len(mappings_table)}
MatchesPair(pair, source, target) ==
    Contains(source, pair[1]) /\ StartsWith(target, pair[2])

\* The reference classification of two type names.
ReferenceClassify(source_type, target_type) ==
    LET source == Upper(source_type)
        target == Upper(target_type)
    IN  IF source = target THEN "PASS"
        ELSE IF \E pair \in MappingPairs(PASS_MAPPINGS) :
                    MatchesPair(pair, source, target) THEN "PASS"
        ELSE IF \E pair \in MappingPairs(WARNING_MAPPINGS) :
                    MatchesPair(pair, source, target) THEN "WARNING"
        ELSE "FAIL"

\* C13: the classification of two type names is PASS when they are equal
\* ignoring case, else PASS by the contains / starts-with rule on the PASS
\* table, else WARNING with an issue by the same rule on the WARNING table,
\* else FAIL with an issue; the PASS table goes first, so BIGINT to INT is
\* PASS.
C13_ClassifyIsReference ==
    Called("_are_types_compatible") =>
        /\ call.out.result = ReferenceClassify(call.source_type, call.target_type)
        /\ call.out.result = "PASS" => IsNone(call.out.issue)
        /\ call.out.result = "WARNING" =>
                /\ ~IsNone(call.out.issue)
                /\ Val(call.out.issue).severity = "WARNING"
                /\ Val(call.out.issue).issue_type = "type_compatible_"
        /\ call.out.result = "FAIL" =>
                /\ ~IsNone(call.out.issue)
                /\ Val(call.out.issue).severity = "FAIL"
                /\ Val(call.out.issue).issue_type = "fail_type_compatible_"
        /\ (call.source_type = T["BIGINT"] /\ call.target_type = T["INT"]) =>
                call.out.result = "PASS"

\* BIGINT to INT, a pair in both tables, has been classified PASS.
C13_Witness ==
    /\ Called("_are_types_compatible")
    /\ call.source_type = T["BIGINT"] /\ call.target_type = T["INT"]
    /\ InMappings(PASS_MAPPINGS, T["BIGINT"], T["INT"])
    /\ InMappings(WARNING_MAPPINGS, T["BIGINT"], T["INT"])
    /\ call.out = DataTypesCompatibleResult("PASS", None)


-----------------------------------------------------------------------------
(* Schema comparison: claim C14                                            *)

\* The most severe of a set of severities, PASS when there is none.
SeverityJoin(severities) ==
    IF severities = {} THEN "PASS"
    ELSE CHOOSE s \in severities :
            \A other \in severities : SEVERITY_ORDER[other] <= SEVERITY_ORDER[s]

SideUnusable(side) == ~side.exist \/ DOMAIN side.columns = {}
CommonColumns == DOMAIN call.source.columns \cap DOMAIN call.target.columns
CommonColumnClassified(status) ==
    \E col \in CommonColumns :
        ReferenceClassify(call.source.columns[col], call.target.columns[col])
            = status
SchemaFailFinding ==
    \/ SideUnusable(call.source) \/ SideUnusable(call.target)
    \/ DOMAIN call.source.columns \ DOMAIN call.target.columns # {}
    \/ CommonColumnClassified("FAIL")
SchemaWarningFinding ==
    \/ DOMAIN call.target.columns \ DOMAIN call.source.columns # {}
    \/ CommonColumnClassified("WARNING")

\* C14: the final status of a schema comparison is the severity join of the
\* issues it returns, PASS when there is none: FAIL when a side does not
\* exist or has no columns (returned at once, without the missing, extra
\* and type-mismatch lists), when a source column is missing in the target,
\* or when a common column's types classify FAIL; WARNING when the worst
\* finding is extra target columns or a WARNING type pair; PASS only without
\* any issue.
C14_StatusIsJoinOfIssues ==
    Called("_validate_single_schema") =>
        /\ call.out.status =
              SeverityJoin({issue.severity :
                                issue \in SeqToSet(call.out.validation_issues)})
        /\ (SideUnusable(call.source) \/ SideUnusable(call.target)) =>
              /\ call.out.status = "FAIL"
              /\ IsNone(call.out.missing_columns)
              /\ IsNone(call.out.extra_columns)
              /\ IsNone(call.out.type_mismatches)
        /\ call.out.status = "FAIL" <=> SchemaFailFinding
        /\ call.out.status = "WARNING" <=>
              (~SchemaFailFinding /\ SchemaWarningFinding)
        /\ call.out.status = "PASS" <=> call.out.validation_issues = <<>>

\* Two usable tables whose common columns hold a WARNING and a FAIL type
\* pair have been compared: the status is FAIL and both type issues and the
\* FAIL summary are in the result.
C14_Witness ==
    /\ Called("_validate_single_schema")
    /\ call.source.exist /\ call.target.exist
    /\ call.source.columns = [n \in {"id", "name"} |->
                                IF n = "id" THEN T["DECIMAL"] ELSE T["XML"]]
    /\ call.target.columns = [n \in {"id", "name"} |-> T["INT"]]
    /\ call.out.status = "FAIL"
    /\ call.out.missing_columns = Some(<<>>)
    /\ Len(call.out.validation_issues) = 3
    /\ call.out.validation_issues[1].severity = "FAIL"
    /\ call.out.validation_issues[2].severity = "WARNING"
    /\ call.out.validation_issues[3] =
            ValidationIssue("type_mismatches_columns", "FAIL", 2)


-----------------------------------------------------------------------------
(* Cast suffixes: claim C15                                                *)


Separators == {<<">">>, <<"-", ">">>, <<"=", ">">>, <<":">>, <<"|">>}
HasSeparator(s) == \E sep \in Separators : Contains(s, sep)
HasLongSeparator(s) == \E sep \in Separators : Len(sep) > 1 /\ Contains(s, sep)

\* The lists have been rebuilt from the key columns.
Parsed ==
    /\ Called("build_key_columns_cast_types_from_key_columns")
    /\ call.mapping.key_columns # <<>>
    /\ \/ IsNone(call.mapping.key_columns_cast_types)
       \/ Len(Val(call.mapping.key_columns_cast_types))
              # Len(call.mapping.key_columns)

\* C15: a key column without separator is the column name as a whole, with
\* cast type None; otherwise it is split at the first occurrence of a
\* separator among > -> => : |, a two-character separator being taken when
\* one occurs, the trimmed left part being the column name and the trimmed
\* right part the cast type; COL -> INTEGER gives COL and INTEGER, A=>B gives
\* A and B; after parsing there are as many cast types as key columns.
C15_CastSuffixParsing ==
    Parsed =>
        /\ ~IsNone(call.out.key_columns_cast_types)
        /\ Len(Val(call.out.key_columns_cast_types)) = Len(call.out.key_columns)
        /\ Len(call.out.key_columns) = Len(call.mapping.key_columns)
        /\ \A i \in 1..Len(call.mapping.key_columns) :
              LET key_column == call.mapping.key_columns[i]
                  column_name == call.out.key_columns[i]
                  cast_type == Val(call.out.key_columns_cast_types)[i]
              IN  /\ ~HasSeparator(key_column) =>
                        column_name = key_column /\ IsNone(cast_type)
                  /\ HasSeparator(key_column) =>
                        \E sep \in Separators :
                            /\ Contains(key_column, sep)
                            /\ HasLongSeparator(key_column) => Len(sep) > 1
                            /\ LET k == FirstOccurrence(key_column, sep)
                               IN  /\ column_name =
                                        Strip(SubSeq(key_column, 1, k - 1))
                                   /\ cast_type =
                                        Some(Strip(SubSeq(key_column, k + Len(sep),
                                                          Len(key_column))))
                  /\ key_column = (<<"C", "O", "L", " ", "-", ">", " ">> \o T["INTEGER"]) =>
                        column_name = <<"C", "O", "L">> /\ cast_type = Some(T["INTEGER"])
                  /\ key_column = <<"A", "=", ">", "B">> =>
                        column_name = <<"A">> /\ cast_type = Some(<<"B">>)
                  /\ key_column = <<"C", "O", "L">> =>
                        column_name = <<"C", "O", "L">> /\ IsNone(cast_type)

\* The key columns COL -> INTEGER and COL have been parsed: two column names
\* COL with the cast types INTEGER and None.
C15_Witness ==
    /\ Parsed
    /\ call.mapping.key_columns = <<(<<"C", "O", "L", " ", "-", ">", " ">> \o T["INTEGER"]), <<"C", "O", "L">>>>
    /\ call.out.key_columns = <<<<"C", "O", "L">>, <<"C", "O", "L">>>>
    /\ call.out.key_columns_cast_types = Some(<<Some(T["INTEGER"]), None>>)

-----------------------------------------------------------------------------

-----------------------------------------------------------------------------
(* Key sets: claims C16 and C20                                            *)

\* C16: the number of matching keys lies between 0 and the size of the
\* smaller key set; the set success rate, matching / larger set * 100, lies
\* in [0, 100], is 0 when both sets are empty and is 100 exactly when the
\* two sets are equal and not empty; {1,2,3} against {2,3,4} gives 2
\* matching keys and 66.67 percent.
C16_SetSuccessRate ==
    Called("_compare_sample_data") =>
        LET source_keys == call.source_keys_set
            target_keys == call.target_keys_set
            rate == call.out.success_rate_of_2_sets
        IN  /\ call.out.matching_set_record_count = Cardinality(source_keys \cap target_keys)
            /\ 0 <= call.out.matching_set_record_count
            /\ call.out.matching_set_record_count <= Cardinality(source_keys)
            /\ call.out.matching_set_record_count <= Cardinality(target_keys)
            /\ rate.den > 0
            /\ (source_keys # {} \/ target_keys # {}) =>
                  rate.num * Max2(Cardinality(source_keys), Cardinality(target_keys))
                      = Cardinality(source_keys \cap target_keys) * 100 * rate.den
            /\ 0 <= rate.num /\ rate.num <= 100 * rate.den
            /\ (source_keys = {} /\ target_keys = {}) => rate.num = 0
            /\ rate.num = 100 * rate.den <=> (source_keys = target_keys /\ source_keys # {})
            /\ (source_keys = {1, 2, 3} /\ target_keys = {2, 3, 4}) =>
                  /\ call.out.matching_set_record_count = 2
                  /\ RoundDiv(rate.num * 100, rate.den) = 6667

\* The key sets {1,2,3} and {2,3,4} have been compared: 2 matching keys out
\* of 3, 66.67 percent.
C16_Witness ==
    /\ Called("_compare_sample_data")
    /\ call.source_keys_set = {1, 2, 3}
    /\ call.target_keys_set = {2, 3, 4}
    /\ call.out.matching_set_record_count = 2
    /\ call.out.success_rate_of_2_sets = [num |-> 200, den |-> 3]

\* The first n strings of a set in sorted order, all of them when there are
\* fewer.
FirstSorted(keys, n) ==
    SubSeq(SortedStrings({StrOfKey(x) : x \in keys}), 1,
           Min2(n, Cardinality(keys)))

\* C20: each reporting sample (matching keys, source-unmatched keys,
\* target-unmatched keys) has at most K entries, K being the mapping's
\* report-sample-count or 5, and is the first K string forms of its key set
\* in lexicographic order, the whole set when it is smaller; so the same key
\* set gives the same sample on every run.
C20_ReportSamplesAreFirstK ==
    Called("_compare_sample_data") =>
        LET k == IF Truthy(call.report_samples)
                 THEN Val(call.report_samples) ELSE 5
            matching == call.source_keys_set \cap call.target_keys_set
        IN  /\ Len(call.out.matching_keys_set_sample) <= k
            /\ Len(call.out.source_unmatched_keys_sample) <= k
            /\ Len(call.out.target_unmatched_keys_sample) <= k
            /\ call.out.matching_keys_set_sample = FirstSorted(matching, k)
            /\ call.out.source_unmatched_keys_sample
                  = FirstSorted(call.source_keys_set \ matching, k)
            /\ call.out.target_unmatched_keys_sample
                  = FirstSorted(call.target_keys_set \ matching, k)

\* Both samples hold the keys 1, 2, 10, the report-sample-count is 2, and the
\* sample of matching keys is "1", "2", while "1", "10" are the first two
\* string forms in lexicographic order.
C20_FailingState ==
    /\ Called("_compare_sample_data")
    /\ call.source_keys_set = {1, 2, 10}
    /\ call.target_keys_set = {1, 2, 10}
    /\ call.report_samples = Some(2)
    /\ call.out.matching_keys_set_sample = <<StrOfKey(1), StrOfKey(2)>>
    /\ FirstSorted({1, 2, 10}, 2) = <<StrOfKey(1), StrOfKey(10)>>

-----------------------------------------------------------------------------
(* Rule-based validation: claim C18                                        *)

\* Whether the value at position i is null-like, and whether it is equal to
\* a value at an earlier position.
NullLike(column_data, i) ==
    column_data[i].is_na
        \/ text_mean_none(normalize_item_data_end_with_dot_0(column_data[i]))
SeenEarlier(column_data, i) ==
    \E j \in 1..(i - 1) :
        normalize_item_data_end_with_dot_0(column_data[j])
            = normalize_item_data_end_with_dot_0(column_data[i])

\* C18: with nullable=false, unique=true and no pattern, a sampled value is
\* counted failed exactly when it is null-like or equal to a value seen
\* earlier, and passed otherwise; passed + failed is the number of sampled
\* values; the values 1, 1, 2, null give 2 passed and 2 failed.
C18_NullsAndDuplicatesFail ==
    (/\ Called("_rule_based_data_validation")
     /\ call.rule = [nullable |-> Some(FALSE), unique |-> Some(TRUE)]) =>
        LET n == Len(call.column_data)
            failed == Cardinality({i \in 1..n :
                          NullLike(call.column_data, i)
                              \/ SeenEarlier(call.column_data, i)})
        IN  /\ call.out.failed_records_count = failed
            /\ call.out.passed_records_count = n - failed
            /\ call.out.passed_records_count + call.out.failed_records_count = n
            /\ call.column_data = <<Item(FALSE, TRUE, <<"1">>), Item(FALSE, TRUE, <<"1">>), Item(FALSE, TRUE, <<"2">>), Item(TRUE, FALSE, <<"N", "o", "n", "e">>)>> =>
                  /\ call.out.passed_records_count = 2
                  /\ call.out.failed_records_count = 2

\* The values 1, 1, 2, null have been validated with nullable=false and
\* unique=true: 3 passed, 1 failed, and the text of the null among the
\* passed values.
C18_FailingState ==
    /\ Called("_rule_based_data_validation")
    /\ call.rule = [nullable |-> Some(FALSE), unique |-> Some(TRUE)]
    /\ call.column_data = <<Item(FALSE, TRUE, <<"1">>), Item(FALSE, TRUE, <<"1">>), Item(FALSE, TRUE, <<"2">>), Item(TRUE, FALSE, <<"N", "o", "n", "e">>)>>
    /\ call.out.passed_records_count = 3
    /\ call.out.failed_records_count = 1
    /\ <<"N", "o", "n", "e">> \in call.out.success_set


-----------------------------------------------------------------------------
(* Distribution-based validation: claim C19                                *)

\* The observed count of the category: the items equal to its name, letter
\* case apart.
ObservedCount ==
    Cardinality({i \in 1..Len(call.column_data) :
        call.column_data[i].str \in {<<"a">>, <<"A">>}})

\* C19: for a category written in whatever letter case with min_count m, an
\* observed count below m gives the category the FAIL issue
\* distribution_below_min_count_m; the same for max_count and for the
\* minimal and maximal percentage.
C19_BoundsOfAnyCaseCategory ==
    Called("_distribution_based_data_validation") =>
        LET issues == SeqToSet(call.out.issue)
            n == Len(call.column_data)
            dist == call.dist
        IN  /\ call.out.count = ObservedCount
            /\ (Known(dist.min_count) /\ ObservedCount < Val(dist.min_count)) =>
                  ValidationIssue("distribution_below_min_count_", "FAIL",
                                  Val(dist.min_count)) \in issues
            /\ (Known(dist.max_count) /\ ObservedCount > Val(dist.max_count)) =>
                  ValidationIssue("distribution_above_max_count_", "FAIL",
                                  Val(dist.max_count)) \in issues
            /\ (Known(dist.min_percent) /\ n > 0
                    /\ ObservedCount * 100 < Val(dist.min_percent) * n) =>
                  ValidationIssue("distribution_below_min_percent_", "FAIL",
                                  Val(dist.min_percent)) \in issues
            /\ (Known(dist.max_percent) /\ n > 0
                    /\ ObservedCount * 100 > Val(dist.max_percent) * n) =>
                  ValidationIssue("distribution_above_max_percent_", "FAIL",
                                  Val(dist.max_percent)) \in issues

\* The category is written "A" with min_count 2, the column holds one "A"
\* among two values: the count is 1 and the category has no issue.
C19_FailingState ==
    /\ Called("_distribution_based_data_validation")
    /\ call.dist = [name |-> "A", min_count |-> Some(2), max_count |-> None,
                    min_percent |-> None, max_percent |-> None]
    /\ call.column_data = <<Item(FALSE, FALSE, <<"A">>), Item(FALSE, FALSE, <<"b">>)>>
    /\ call.out.count = 1
    /\ call.out.issue = <<>>

-----------------------------------------------------------------------------
(* The aggregator's sort and group step: claim C21                         *)

\* The map as one list, and the entry a result belongs to.
GroupedMapItems == Flatten(call.out.data_match_validation_result_grouped)
EntryNameOf(item) == IF HasGroup(item) THEN Val(item.group) ELSE "_no_group_"

\* C21: the sort and group step only reorders: the final flat list of data
\* results is a permutation of the collected results, results of the same
\* group are contiguous in it and the results without group come last; the
\* grouped map partitions the same results, each result being in exactly
\* one entry, that of its group name, or of "_no_group_" when it has none.
C21_SortGroupOnlyReorders ==
    Called("sort_results_and_add_data_match_validation_result_grouped") =>
        LET collected == call.self.data_match_validation_result
            flat == call.out.data_match_validation_result
            grouped == call.out.data_match_validation_result_grouped
        IN  /\ Len(flat) = Len(collected)
            /\ \A x \in SeqToSet(collected) \cup SeqToSet(flat) :
                    CountIn(flat, x) = CountIn(collected, x)
            /\ \A i, j, k \in 1..Len(flat) :
                    (i < j /\ j < k /\ HasGroup(flat[i])
                        /\ flat[i].group = flat[k].group) =>
                            flat[j].group = flat[i].group
            /\ \A i, j \in 1..Len(flat) :
                    (i < j /\ ~HasGroup(flat[i])) => ~HasGroup(flat[j])
            /\ \A x \in SeqToSet(collected) \cup SeqToSet(GroupedMapItems) :
                    CountIn(GroupedMapItems, x) = CountIn(collected, x)
            /\ \A k \in 1..Len(grouped) :
                    /\ \A item \in SeqToSet(grouped[k].items) :
                            grouped[k].name = EntryNameOf(item)
                    /\ \A j \in 1..Len(grouped) :
                            grouped[j].name = grouped[k].name => j = k

\* The collected results are one of table A in the group "_no_group_" and
\* one of table B without group: both are in the flat list, and the map has
\* the single entry "_no_group_" holding the result of B only.
C21_FailingState ==
    /\ Called("sort_results_and_add_data_match_validation_result_grouped")
    /\ Len(call.self.data_match_validation_result) = 2
    /\ call.self.data_match_validation_result[1].source_table = "A"
    /\ call.self.data_match_validation_result[1].group = Some("_no_group_")
    /\ call.self.data_match_validation_result[2].source_table = "B"
    /\ call.self.data_match_validation_result[2].group = None
    /\ call.out.data_match_validation_result
            = call.self.data_match_validation_result
    /\ call.out.data_match_validation_result_grouped
            = <<[name |-> "_no_group_",
                 items |-> <<call.self.data_match_validation_result[2]>>]>>

-----------------------------------------------------------------------------
(* The construction of a Table Mapping: claims C22 and C23                 *)

\* An argument of the constructor is given when it is not left out and not
\* empty.
Given(argument) == ~IsNone(argument) /\ Val(argument) # <<>>
Constructed == Val(call.out)
ConstructedAgain == Val(call.again)

\* C22: constructing a Table Mapping with exactly one of the source and
\* target names given succeeds and sets the omitted name to the given one,
\* whatever key columns, transformation rules and identifier are given or
\* omitted; constructing it with neither name is rejected with an error.
C22_OneNameIsEnough ==
    Called("TableMapping") =>
        /\ (Given(call.source_table) /\ ~Given(call.target_table)) =>
                /\ Constructed.raised = ""
                /\ Constructed.source_table = Val(call.source_table)
                /\ Constructed.target_table = Val(call.source_table)
        /\ (~Given(call.source_table) /\ Given(call.target_table)) =>
                /\ Constructed.raised = ""
                /\ Constructed.source_table = Val(call.target_table)
                /\ Constructed.target_table = Val(call.target_table)
        /\ (~Given(call.source_table) /\ ~Given(call.target_table)) =>
                Constructed.raised # ""

\* A Table Mapping has been constructed from the source name A alone: the
\* construction has raised a TypeError.
C22_FailingState ==
    /\ Called("TableMapping")
    /\ call.source_table = Some(<<"A">>)
    /\ call.target_table = None
    /\ call.key_columns = None
    /\ call.data_transformation_rules = None
    /\ call.unique_data_mapping_id = None
    /\ Constructed.raised = "TypeError"

\* C23: the derived identifier is stable for equal inputs: two Table
\* Mappings built without an explicit identifier from the same source,
\* target, transformation rules and the same key columns, listed in any
\* order, get the same identifier, and the same mapping gets the same
\* identifier on every construction.
C23_IdentifierIsStable ==
    (/\ Called("TableMapping")
     /\ ~Given(call.unique_data_mapping_id)
     /\ Constructed.raised = "" /\ ConstructedAgain.raised = "") =>
        Constructed.unique_data_mapping_id
            = ConstructedAgain.unique_data_mapping_id

\* The mapping of source A with the key columns ID and K and no
\* transformation rule has been constructed twice from the same arguments:
\* the identifiers are A|A|ID,K| and A|A|K,ID|.
C23_FailingState ==
    /\ Called("TableMapping")
    /\ call.source_table = Some(<<"A">>)
    /\ call.target_table = None
    /\ call.key_columns = Some(<< <<"I", "D">>, <<"K">> >>)
    /\ call.data_transformation_rules = Some(<<>>)
    /\ call.unique_data_mapping_id = None
    /\ ~call.reversed
    /\ Constructed.unique_data_mapping_id
            = <<"A", "|", "A", "|", "I", "D", ",", "K", "|">>
    /\ ConstructedAgain.unique_data_mapping_id
            = <<"A", "|", "A", "|", "K", ",", "I", "D", "|">>

-----------------------------------------------------------------------------
(* The caller's Table Mapping during a task: claim C24                     *)

\* C24: tasks leave what they share unchanged: the rule-based validator,
\* which a data task runs on its samples, leaves the per-column rule of the
\* caller's Table Mapping as it found it.
C24_TaskLeavesMappingUnchanged ==
    [][call.fn = "_rule_based_data_validation" =>
            /\ call'.rule = call.rule
            /\ call'.pattern = call.pattern
            /\ call'.pattern_regex_description = call.pattern_regex_description]_vars

\* The validator has run on a column whose rule in the mapping was
\* {nullable: false}: the rule of the mapping now also holds the default
\* pattern and a description.
C24_FailingState ==
    /\ Called("_rule_based_data_validation")
    /\ call.rule = [nullable |-> Some(FALSE), unique |-> None]
    /\ call.pattern = Some("^.*$")
    /\ call.pattern_regex_description = Some(<<"Accept any value", "not null">>)

\* C30: the overall status of a run is the more severe of the aggregate
\* table status and the aggregate schema status, each being the most severe
\* status among its results and SKIP when its phase gave no result; a run
\* whose tables all PASS and whose schema phase is disabled is PASS overall.
MostSevere(statuses) ==
    CHOOSE s \in statuses \cup {"SKIP"} :
        \A other \in statuses \cup {"SKIP"} :
            SEVERITY_ORDER[s] >= SEVERITY_ORDER[other]

C30_OverallIsJoin ==
    Called("overall_status") =>
        LET self == call.self
            table_status ==
                MostSevere({self.data_match_validation_result[i].status :
                            i \in 1..Len(self.data_match_validation_result)})
            schema_status ==
                MostSevere({self.schema_validation_results[i].status :
                            i \in 1..Len(self.schema_validation_results)})
        IN  /\ Val(call.out).overall_status_table_result = table_status
            /\ Val(call.out).overall_status_schema_result = schema_status
            /\ Val(call.out).overall_status
                    = MostSevere({table_status, schema_status})

\* One table, PASS, and no schema result: the table status is PASS, the
\* schema status SKIP, and the overall status is SKIP.
C30_FailingState ==
    /\ Called("overall_status")
    /\ call.self.data_match_validation_result = <<[status |-> "PASS"]>>
    /\ call.self.schema_validation_results = <<>>
    /\ Val(call.out).overall_status_table_result = "PASS"
    /\ Val(call.out).overall_status_schema_result = "SKIP"
    /\ Val(call.out).overall_status = "SKIP"

-----------------------------------------------------------------------------
(* SpecLattice                                                             *)

LatInit ==
    /\ lat \in [pc : {"start"}, a : ValidationStatus, b : ValidationStatus,
                c : ValidationStatus]
    /\ task = TaskIdle
    /\ OrchIdle

Escalate ==
    /\ lat.pc = "start"
    /\ lat' = [pc |-> "done", a |-> lat.a, b |-> lat.b, c |-> lat.c,
               ab |-> raise_status_level_to(lat.a, lat.b),
               ba |-> raise_status_level_to(lat.b, lat.a),
               aa |-> raise_status_level_to(lat.a, lat.a),
               ab_c |-> raise_status_level_to(
                            raise_status_level_to(lat.a, lat.b), lat.c),
               a_bc |-> raise_status_level_to(
                            lat.a, raise_status_level_to(lat.b, lat.c))]
    /\ UNCHANGED <<call, task, mappings, settings, phase, futures, results, overall>>

LatNext == Escalate

SpecLattice == LatInit /\ [][LatNext]_vars

\* The order the specification states, least severe first.
SeverityChain == <<"SKIP", "PASS", "WARNING", "FAIL">>
ChainPos(s) == CHOOSE i \in 1..Len(SeverityChain) : SeverityChain[i] = s
MoreSevere(x, y) == IF ChainPos(y) > ChainPos(x) THEN y ELSE x

\* C1: escalate returns the more severe of its two arguments under
\* SKIP < PASS < WARNING < FAIL, is commutative, idempotent and associative,
\* and FAIL is absorbing on both sides.
C1_EscalateIsJoin ==
    lat.pc = "done" =>
        /\ lat.ab = MoreSevere(lat.a, lat.b)
        /\ lat.ab = lat.ba
        /\ lat.aa = lat.a
        /\ lat.ab_c = lat.a_bc
        /\ ("FAIL" \in {lat.a, lat.b} => lat.ab = "FAIL" /\ lat.ba = "FAIL")

C1_Witness ==
    /\ lat.pc = "done"
    /\ lat.a = "FAIL" /\ lat.b = "SKIP" /\ lat.c = "WARNING"
    /\ lat.ab = "FAIL" /\ lat.ba = "FAIL" /\ lat.ab_c = "FAIL"

=============================================================================
